---- MODULE Spec2Model ----
(***************************************************************************)
(* Fatigue crack growth core of dyjoso/engineering-tools                   *)
(* (tools/crack-growth-analysis): the NASGRO rate equation, the TC01 and   *)
(* TC23 geometry solutions and the integration engine with its             *)
(* single-crack, dual-crack and edge-crack (post link-up) loops.           *)
(*                                                                         *)
(* The program computes in IEEE doubles; the model computes in fixed point *)
(* on integers:                                                            *)
(*   length        1 unit = 5e-9 in   (so the 1e-8 in floor is 2 units)    *)
(*   stress        1 unit = 1 ksi                                          *)
(*   beta, ratios  per mille (1000 = 1.0)                                  *)
(*   K             1 unit = 0.1 ksi * sqrt(length unit)                    *)
(*   R             tenths (5 = 0.5)                                        *)
(* Math.PI is 22/7; cos, sin, exp and the sqrt(sec) profile are tabulated  *)
(* on a grid.  A comparison of two products of lengths is decided exactly  *)
(* (ProdGeq), a division rounds as stated where it is made.                *)
(***************************************************************************)
EXTENDS Integers, Sequences, FiniteSets, TLC

VARIABLES
    pc,           \* "input", "single", "dual", "edge", "done", "rejected"; "geometry"; "nasgro"
    caller,       \* who started the run: "none", "runAnalysis", "run"
    config,       \* the engineConfig object (geomParams with its scratch fields inside)
    Kc,           \* const Kc of the run
    a,            \* _runSingle: let a
    c1, c2,       \* _runDual / _runEdgeCrackPhase: let c1, c2
    aEdge,        \* _runEdgeCrackPhase: let aEdge
    N, step,      \* cycle count and integration step counter
    step_start,   \* _runEdgeCrackPhase: parameter step_start
    transitionCycle, \* _runEdgeCrackPhase: const transitionCycle
    failureMode, failureSide,
    data,         \* the dense series
    logEntries,   \* the sparse log
    calls,        \* the geometry calls of the last executed block, with the scratch fields they saw
    result        \* the returned object, or NoResult

vars == <<pc, caller, config, Kc, a, c1, c2, aEdge, N, step, step_start, transitionCycle,
          failureMode, failureSide, data, logEntries, calls, result>>

-----------------------------------------------------------------------------
(* Arithmetic helpers *)

undefined == 0 - 1

Max(x, y) == IF x >= y THEN x ELSE y

Min(x, y) == IF x <= y THEN x ELSE y

Abs(x) == IF x < 0 THEN 0 - x ELSE x

\* the element of a one-element set; { e(v) : v \in {x} } computes x once for e
The(S) == CHOOSE v \in S : TRUE

\* x / y rounded up, for x >= 0 and y > 0: a positive quotient stays positive.
CeilDiv(x, y) == (x + y - 1) \div y

RECURSIVE Pow(_, _)
Pow(x, k) == IF k <= 0 THEN 1 ELSE x * Pow(x, k - 1)

RECURSIVE SqrtIter(_, _)
SqrtIter(n, x) ==
    LET y == (x + n \div x) \div 2
    IN  IF y >= x THEN x ELSE SqrtIter(n, y)

\* floor(sqrt(n))
Isqrt(n) == IF n <= 0 THEN 0 ELSE SqrtIter(n, n \div 2 + 1)

\* Math.PI * x
PiTimes(x) == 3 * x + x \div 7

RECURSIVE FracGeq(_, _, _, _)
\* p1/q1 >= p2/q2 for p1, p2 >= 0 and q1, q2 > 0, by continued fractions
FracGeq(p1, q1, p2, q2) ==
    LET i1 == p1 \div q1
        i2 == p2 \div q2
        r1 == p1 % q1
        r2 == p2 % q2
    IN  IF i1 # i2 THEN i1 > i2
        ELSE IF r2 = 0 THEN TRUE
        ELSE IF r1 = 0 THEN FALSE
        ELSE FracGeq(q2, r2, q1, r1)

\* x*y >= u*v for naturals, without forming the products
ProdGeq(x, y, u, v) ==
    IF u = 0 \/ v = 0 THEN TRUE
    ELSE IF x = 0 \/ y = 0 THEN FALSE
    ELSE FracGeq(x, u, v, y)

\* a stress s * w / net in milli-ksi, kept as a quotient; net = 0 is Infinity
Quot(s, w, net) == [s |-> s, w |-> w, net |-> net]

\* q >= lim2/2 ksi, for a stress quotient q with s >= 0 and the doubled stress lim2
QuotGeqHalf(q, lim2) ==
    IF q.net = 0 THEN q.s > 0
    ELSE IF q.net < 0 THEN FALSE
    ELSE ProdGeq(2 * q.s, q.w, 1000 * lim2, q.net)

RECURSIVE Scale(_, _, _)
\* floor(10^k * x / y) for 0 <= x and y > 0, digit by digit
Scale(x, y, k) ==
    IF k = 0 THEN x \div y
    ELSE Pow(10, k) * (x \div y) + Scale(10 * (x % y), y, k - 1)

\* 1000 * x / y (per mille), for 0 <= x and y > 0
PerMille(x, y) == Scale(x, y, 3)

-----------------------------------------------------------------------------
(* Tabulated elementary functions *)

\* 1000 * cos(k * pi/40), k = 0..20
CosTable == <<1000, 997, 988, 972, 951, 924, 891, 853, 809, 760, 707,
              649, 588, 522, 454, 383, 309, 233, 156, 78, 0>>

\* 1000 * sqrt(sec(k * pi/40)), k = 0..19
SqrtSecTable == <<1000, 1002, 1006, 1014, 1025, 1040, 1059, 1083, 1112, 1147,
                  1189, 1241, 1304, 1383, 1484, 1617, 1799, 2070, 2528, 3570>>

\* 1000 * exp(-(k/4)^2), k = 0..11
ExpNegSqTable == <<1000, 939, 779, 570, 368, 210, 105, 47, 18, 6, 2, 1>>

\* 1000 * 0.21 * sin(8 * atan(r^0.9)), r = k/20, k = 0..20
PhiDenTable == <<0, 108, 177, 208, 202, 165, 106, 37, 0 - 34, 0 - 98, 0 - 150,
                 0 - 186, 0 - 206, 0 - 210, 0 - 200, 0 - 179, 0 - 150, 0 - 116,
                 0 - 78, 0 - 39, 0>>

\* 1000 * sin(k * pi/40), k = 0..20
SinAt(k) == CosTable[(20 - k) + 1]

-----------------------------------------------------------------------------
(* src/unnamed/part_000 -- NasgroEquation *)

\* A0 of the Newman closure function, per mille
NewmanA0(alpha10, S10) ==
    LET poly == 825 - 34 * alpha10 + (5 * alpha10 * alpha10) \div 10
        piTerm == CosTable[Min(2 * S10, 20) + 1]
        root == IF alpha10 = 10 THEN piTerm
                ELSE IF alpha10 = 20 THEN Isqrt(1000 * piTerm)
                ELSE Isqrt(1000 * Isqrt(1000 * piTerm))
    IN  (poly * root) \div 1000

\* A1 of the Newman closure function, per mille
NewmanA1(alpha10, S10) == ((4150 - 71 * alpha10) * S10) \div 100

\* a closure function that is clamped at 0 for R < 0
newmanClosure_clamped(R10, alpha10, S10) ==
    LET A0 == NewmanA0(alpha10, S10)
        A1 == NewmanA1(alpha10, S10)
        A3 == 2 * A0 + A1 - 1000
        A2 == 1000 - A0 - A1 - A3
        r  == 100 * R10
        fPoly == A0 + (A1 * r) \div 1000 + (A2 * r * r) \div 1000000
                    + (((A3 * r * r) \div 1000000) * r) \div 1000
    IN  IF R10 >= 0 THEN Max(r, fPoly) ELSE Max(0, A0 + (A1 * r) \div 1000)

\* f = Kop/Kmax, per mille, for R = R10/10
newmanClosure(R10, alpha10, S10) ==
    LET A0 == NewmanA0(alpha10, S10)
        A1 == NewmanA1(alpha10, S10)
        A3 == 2 * A0 + A1 - 1000
        A2 == 1000 - A0 - A1 - A3
        r  == 100 * R10
        fPoly == A0 + (A1 * r) \div 1000 + (A2 * r * r) \div 1000000
                    + (((A3 * r * r) \div 1000000) * r) \div 1000
    IN  IF R10 >= 0 THEN Max(r, fPoly) ELSE A0 + (A1 * r) \div 1000

\* DKth in K units; the exponent 1 + Cth*R is taken to its integer part
thresholdDK(R10, mat) ==
    LET alpha_th   == IF mat.alpha_th # undefined THEN mat.alpha_th ELSE mat.alpha
        Smax_S0_th == IF mat.Smax_S0_th # undefined THEN mat.Smax_S0_th ELSE mat.Smax_S0
        f   == newmanClosure(R10, alpha_th, Smax_S0_th)
        A0  == NewmanA0(alpha_th, Smax_S0_th)
        Cth == IF R10 >= 0 THEN mat.Cth_plus ELSE mat.Cth_minus
        R_clamped == Max(0 - 20, Min(R10, 7))
        base == ((1000 - f) * 1000) \div (1000 - A0)
        exponent == 1 + (Cth * R_clamped) \div 100
        b0 == Max(base, 0)
    IN  IF exponent <= 0 THEN mat.DK1
        ELSE IF exponent = 1 THEN (mat.DK1 * b0) \div 1000
        ELSE (((mat.DK1 * b0) \div 1000) * b0) \div 1000

\* Kc = K1c * (1 + Bk * exp(-(Ak*t/t0)^2)), t0 = 2.5 * (K1c/Yield)^2
calcKc(t, mat) ==
    LET kq == mat.K1c \div (10 * mat.Yield)
        t0 == (kq * kq * 5) \div 2
        x4 == IF t0 <= 0 THEN 12 ELSE (4 * mat.Ak * t) \div t0
        ex == IF x4 >= 12 THEN 0 ELSE ExpNegSqTable[x4 + 1]
    IN  mat.K1c + ((mat.K1c \div 1000) * mat.Bk * ex) \div 10

\* a growthRate without the arrest return, its threshold term floored at 0.001
\* like the instability term
growthRate_flooredTail(Kmax, R10, mat, KcArg) ==
    LET dK   == (Kmax * (10 - R10)) \div 10
        DKth == thresholdDK(R10, mat)
        f    == newmanClosure(R10, mat.alpha, mat.Smax_S0)
        eff0 == IF R10 >= 10 THEN 0
                ELSE ((1000 - f) * (dK \div 100)) \div (10 - R10)
        effDK == IF eff0 < 0 THEN 0 ELSE eff0
        thr0 == IF dK <= 0 THEN 0 ELSE 1000 - PerMille(DKth, dK)
        threshTerm == IF thr0 < 1 THEN 1 ELSE thr0
        fr0 == IF Kmax >= KcArg THEN 0 ELSE PerMille(KcArg - Kmax, KcArg)
        fractureTerm == IF fr0 < 1 THEN 1 ELSE fr0
        E == CeilDiv(effDK, 100000)
        X == mat.C * Pow(E, mat.n)
        Y == CeilDiv(X * Pow(threshTerm, mat.p), Pow(1000, mat.p))
        rate == CeilDiv(Y * Pow(1000, mat.q), Pow(fractureTerm, mat.q))
    IN  [dadN |-> rate, dK |-> dK, DKth |-> DKth, f |-> f]

\* a growthRate whose instability term is set to 1 where it falls below 0.001
growthRate_resetTail(Kmax, R10, mat, KcArg) ==
    LET dK   == (Kmax * (10 - R10)) \div 10
        DKth == thresholdDK(R10, mat)
        f    == newmanClosure(R10, mat.alpha, mat.Smax_S0)
        eff0 == IF R10 >= 10 THEN 0
                ELSE ((1000 - f) * (dK \div 100)) \div (10 - R10)
        effDK == IF eff0 < 0 THEN 0 ELSE eff0
        thr0 == 1000 - PerMille(DKth, dK)
        threshTerm == IF thr0 < 0 THEN 0 ELSE thr0
        fr0 == IF Kmax >= KcArg THEN 0 ELSE PerMille(KcArg - Kmax, KcArg)
        fractureTerm == IF fr0 < 1 THEN 1000 ELSE fr0
        E == CeilDiv(effDK, 100000)
        X == mat.C * Pow(E, mat.n)
        Y == CeilDiv(X * Pow(threshTerm, mat.p), Pow(1000, mat.p))
        rate == CeilDiv(Y * Pow(1000, mat.q), Pow(fractureTerm, mat.q))
    IN  IF dK <= DKth
        THEN [dadN |-> 0, dK |-> dK, DKth |-> DKth, f |-> f]
        ELSE [dadN |-> rate, dK |-> dK, DKth |-> DKth, f |-> f]

\* da/dN and its intermediate values
growthRate(Kmax, R10, mat, KcArg) ==
    LET dK   == (Kmax * (10 - R10)) \div 10
        DKth == thresholdDK(R10, mat)
        f    == newmanClosure(R10, mat.alpha, mat.Smax_S0)
        eff0 == IF R10 >= 10 THEN 0
                ELSE ((1000 - f) * (dK \div 100)) \div (10 - R10)
        effDK == IF eff0 < 0 THEN 0 ELSE eff0
        thr0 == 1000 - PerMille(DKth, dK)
        threshTerm == IF thr0 < 0 THEN 0 ELSE thr0
        fr0 == IF Kmax >= KcArg THEN 0 ELSE PerMille(KcArg - Kmax, KcArg)
        fractureTerm == IF fr0 < 1 THEN 1 ELSE fr0
        E == CeilDiv(effDK, 100000)
        numerator == Pow(threshTerm, mat.p)
        denominator == Pow(fractureTerm, mat.q)
        X == mat.C * Pow(E, mat.n)
        Y == CeilDiv(X * numerator, Pow(1000, mat.p))
        rate == CeilDiv(Y * Pow(1000, mat.q), denominator)
    IN  IF dK <= DKth
        THEN [dadN |-> 0, dK |-> dK, DKth |-> DKth, f |-> f]
        ELSE [dadN |-> rate, dK |-> dK, DKth |-> DKth, f |-> f]

-----------------------------------------------------------------------------
(* test-tc05.js -- CrackGeometry defaults and TC01Geometry *)

\* sigma * sqrt(pi*x) * beta for a valid beta, -1 for beta < 0
KOf(sigma, x, beta) ==
    IF beta < 0 THEN 0 - 1
    ELSE (((sigma * Isqrt(PiTimes(x))) \div 10) * beta) \div 10

\* a TC01 getBeta whose only limit is a/W >= 0.95
TC01_getBeta_ratioOnly(x, params) ==
    LET W == params.W
    IN  IF ProdGeq(100, Max(x, 0), 95, W) THEN 0 - 1
        ELSE SqrtSecTable[Min((40 * Max(x, 0)) \div W, 19) + 1]

\* TC01Geometry.getBeta: sqrt(sec(pi*a/W)), per mille, or -1
TC01_getBeta(x, params) ==
    LET W == params.W
    IN  IF ProdGeq(100, Max(x, 0), 95, W) THEN 0 - 1
        ELSE IF ProdGeq(2000, Max(x, 0), 999, W) THEN 0 - 1
        ELSE SqrtSecTable[Min((40 * Max(x, 0)) \div W, 19) + 1]

\* CrackGeometry.getK (default): sigma * sqrt(pi*a) * beta
TC01_getK(x, sigma, params) == KOf(sigma, x, TC01_getBeta(x, params))

\* TC01Geometry.getMaxCrack: 0.95 * W / 2
TC01_getMaxCrack(params) == (95 * params.W) \div 200

\* CrackGeometry.getNetSectionStress (default): sigma * W / (W - 2a)
TC01_getNetSectionStress(x, sigma, params) ==
    Quot(1000 * sigma, params.W, params.W - 2 * x)

-----------------------------------------------------------------------------
(* geometry/tc05.js -- TC05 (row of holes).  The tables and their interpolation *)
(* are data of tc05-data.js: a table is its four corner values on the unit    *)
(* square of (crack index, D/H), per mille, one set of values per table.      *)

\* TC05_DATA: the corners (0,0), (0,1), (1,0), (1,1) of each table
TC05_DATA ==
    [C4 |-> <<3000, 3400, 1100, 1900>>, C5 |-> <<900, 1300, 200, 500>>,
     C6 |-> <<3100, 3600, 1300, 2300>>, C7 |-> <<1000, 1500, 300, 700>>,
     C8 |-> <<3200, 3900, 1600, 2900>>, C9 |-> <<1100, 1700, 400, 1000>>]

\* interpolateTable(table, x, DH): bilinear, x and DH per mille
interpolateTable(table, x, DH) ==
    LET xc == Max(0, Min(x, 1000))
        dc == Max(0, Min(DH, 1000))
        v0 == table[1] + ((table[2] - table[1]) * dc) \div 1000
        v1 == table[3] + ((table[4] - table[3]) * dc) \div 1000
    IN  v0 + ((v1 - v0) * xc) \div 1000

\* a TC05 getBeta that indexes every table with c/(H-D)
TC05_getBeta_unscaled(c, params) ==
    IF c <= 0 \/ params.D <= 0 \/ params.H <= 0 THEN 0 - 1
    ELSE IF params.D >= params.H THEN 0 - 1
    ELSE LET DH == PerMille(params.D, params.H)
             denominator == params.H - params.D
         IN  IF params.config = "double_all"
             THEN interpolateTable(TC05_DATA.C8, PerMille(c, denominator), DH)
             ELSE IF params.config = "double_one"
             THEN interpolateTable(TC05_DATA.C6, PerMille(c, denominator), DH)
             ELSE interpolateTable(TC05_DATA.C4, PerMille(c, denominator), DH)

\* TC05.getBeta(c, params)
TC05_getBeta(c, params) ==
    IF c <= 0 \/ params.D <= 0 \/ params.H <= 0 THEN 0 - 1
    ELSE IF params.D >= params.H THEN 0 - 1
    ELSE LET DH == PerMille(params.D, params.H)
             denominator == params.H - params.D
         IN  IF params.config = "double_all"
             THEN interpolateTable(TC05_DATA.C8, PerMille(2 * c, denominator), DH)
             ELSE IF params.config = "double_one"
             THEN interpolateTable(TC05_DATA.C6, PerMille(c, denominator), DH)
             ELSE interpolateTable(TC05_DATA.C4, PerMille(c, denominator), DH)

\* TC05.getK(c, sigma, params): (S0*F0 + S3*F3) * sqrt(pi*c)
TC05_getK(c, sigma, params) ==
    IF c <= 0 \/ params.D <= 0 \/ params.H <= 0 THEN 0 - 1
    ELSE IF params.D >= params.H THEN 0 - 1
    ELSE LET DH == PerMille(params.D, params.H)
             denominator == params.H - params.D
             x == IF params.config = "double_all" THEN PerMille(2 * c, denominator)
                  ELSE PerMille(c, denominator)
             tableTension == IF params.config = "double_all" THEN TC05_DATA.C8
                             ELSE IF params.config = "double_one" THEN TC05_DATA.C6
                             ELSE TC05_DATA.C4
             tableBearing == IF params.config = "double_all" THEN TC05_DATA.C9
                             ELSE IF params.config = "double_one" THEN TC05_DATA.C7
                             ELSE TC05_DATA.C5
             F0 == interpolateTable(tableTension, x, DH)
             F3 == interpolateTable(tableBearing, x, DH)
             K0 == (((sigma * Isqrt(PiTimes(c))) \div 10) * F0) \div 10
             K3 == (((params.S3 * Isqrt(PiTimes(c))) \div 10) * F3) \div 10
         IN  K0 + K3

-----------------------------------------------------------------------------
(* geometry/tc05.js -- TC23Geometry.  Half lengths (c0, b, B, R) are doubled: *)
(* every function of them below is homogeneous of degree 0.                 *)

\* this._Rk, times 1000
Rk == <<3365, 0 - 7209, 8231, 0 - 3500, 0 - 2923, 4307, 0 - 1562>>

\* this._Dk, times 1000
Dk == <<1000, 987, 37, 901, 0 - 17, 2266, 86, 3520,
        1129, 51, 903, 0 - 17, 2348, 84, 3525>>

RECURSIVE Horner(_, _, _)
\* sum of coef[j] * x^(j-1), j = 1..k, in per mille
Horner(coef, x, k) ==
    IF k > Len(coef) THEN 0
    ELSE coef[k] + (Horner(coef, x, k + 1) * x) \div 1000

\* beta_r(rho): Bowie polynomial
betaR(rho) == Horner(Rk, rho, 1)

\* beta_u(gamma_a, gamma_b): unequal crack correction
betaU(gamma_a, gamma_b) ==
    LET ya  == gamma_a
        yb  == gamma_b
        ya2 == (ya * ya) \div 1000
        yb2 == (yb * yb) \div 1000
        yab == (ya * yb) \div 1000
        ya2b == (ya2 * yb) \div 1000
        yab2 == (ya * yb2) \div 1000
        num == Dk[1] + (Dk[2] * ya + Dk[3] * ya2 + Dk[4] * yb + Dk[5] * yb2) \div 1000
                     + (Dk[6] * yab) \div 1000 + (Dk[7] * ya2b) \div 1000
                     + (Dk[8] * yab2) \div 1000
        den == 1000 + (Dk[9] * ya + Dk[10] * ya2 + Dk[11] * yb + Dk[12] * yb2) \div 1000
                     + (Dk[13] * yab) \div 1000 + (Dk[14] * ya2b) \div 1000
                     + (Dk[15] * yab2) \div 1000
    IN  (num * 1000) \div den

\* Solution A1 for one tip; D is the hole diameter (2R)
betaA1(cThis, cOther, D) ==
    LET gamma_this  == PerMille(2 * cThis, D)
        gamma_other == PerMille(2 * cOther, D)
        rho_this == (gamma_this * 1000) \div (gamma_this + 1000)
        c0x2 == cThis + D + cOther
        br == betaR(rho_this)
        bu == betaU(gamma_other, gamma_this)
        scale == Isqrt(1000 * PerMille(c0x2, cThis + D))
    IN  (((br * bu) \div 1000) * scale) \div 1000

\* phi_1(mu, omega, W): near-edge correction, or -1 at lambda_1 >= pi/2
phi1(mu, omega, W) ==
    IF mu <= 0 THEN 1000
    ELSE IF omega <= 0 \/ mu >= omega THEN 0 - 1
    ELSE LET k1 == Min((20 * mu) \div omega, 19)
             lam_s == SinAt(Min((40 * omega) \div W, 20))
             cosL1_025 == Isqrt(1000 * Isqrt(1000 * CosTable[k1 + 1]))
             sq == ((1000 + cosL1_025) * (1000 + cosL1_025)) \div 1000
             bracket == lam_s + ((1000 - lam_s) * sq) \div 4000
         IN  (bracket * SqrtSecTable[k1 + 1]) \div 1000

\* phi_2(mu, omega, W): far-edge correction, or -1 at lambda_12 >= pi/2
phi2(mu, omega, W) ==
    IF mu <= 0 THEN 1000
    ELSE IF omega <= 0 \/ omega >= W THEN 0 - 1
    ELSE IF ProdGeq(mu, 4 * W - omega, 7 * omega, W - omega) THEN 0 - 1
    ELSE LET x12 == (4 * PerMille(mu, omega) + 3 * PerMille(mu, W - omega)) \div 7
             k12 == Min((20 * x12) \div 1000, 19)
             kr  == Min((20 * Abs(W - 2 * omega)) \div W, 20)
             denom == 1000 + PhiDenTable[kr + 1]
         IN  1000 + ((SqrtSecTable[k12 + 1] - 1000) * 1000) \div denom

\* Solution A2: crack-to-edge finite width (c0, b and W doubled)
betaA2(c0, b, W, side) ==
    IF 2 * b <= W
    THEN IF side = "left" THEN phi1(c0, b, W) ELSE phi2(c0, b, W)
    ELSE IF side = "left" THEN phi2(c0, W - b, W) ELSE phi1(c0, W - b, W)

\* Solution A3: hole-to-edge finite width (R, B and W doubled)
betaA3(R, B, W, side) ==
    IF 2 * B <= W
    THEN IF side = "left" THEN phi1(R, B, W) ELSE phi2(R, B, W)
    ELSE IF side = "left" THEN phi2(R, W - B, W) ELSE phi1(R, W - B, W)

\* the (c1, c2) a TC23 function sees for tip `side` at length c
TipPair(c, params, side) ==
    IF side = "left"
    THEN [c1 |-> c,
          c2 |-> IF params._c2 # undefined THEN params._c2
                 ELSE IF params.a0_2 # undefined /\ params.a0_2 # 0 THEN params.a0_2
                 ELSE c]
    ELSE [c1 |-> IF params._c1 # undefined THEN params._c1
                 ELSE IF params.a0 # undefined /\ params.a0 # 0 THEN params.a0
                 ELSE c,
          c2 |-> c]

\* A1 * A2 * A3, or -1 when A2 or A3 is at its limit
BetaProduct(bA1, bA2, bA3) ==
    IF bA2 < 0 THEN 0 - 1
    ELSE IF bA3 < 0 THEN 0 - 1
    ELSE (((bA1 * bA2) \div 1000) * bA3) \div 1000

\* a TC23 getBeta that places the flaw centre at B + (c2 + c1)/2
TC23_getBeta_centreShifted(c, params, side) ==
    IF c <= 0 THEN 0 - 1
    ELSE LET W  == params.W
             Bx2 == W + 2 * params.e0
             cc == TipPair(c, params, side)
             c0x2 == cc.c1 + params.D + cc.c2
             bx2  == Bx2 + cc.c2 + cc.c1
             cThis  == IF side = "left" THEN cc.c1 ELSE cc.c2
             cOther == IF side = "left" THEN cc.c2 ELSE cc.c1
         IN  BetaProduct(betaA1(cThis, cOther, params.D),
                         betaA2(c0x2, bx2, 2 * W, side),
                         betaA3(params.D, Bx2, 2 * W, side))

\* TC23Geometry.getBeta: beta^A = A1 * A2 * A3, per mille, or -1
TC23_getBeta(c, params, side) ==
    IF c <= 0 THEN 0 - 1
    ELSE LET W  == params.W
             Bx2 == W + 2 * params.e0
             cc == TipPair(c, params, side)
             c0x2 == cc.c1 + params.D + cc.c2
             bx2  == Bx2 + cc.c2 - cc.c1
             cThis  == IF side = "left" THEN cc.c1 ELSE cc.c2
             cOther == IF side = "left" THEN cc.c2 ELSE cc.c1
         IN  BetaProduct(betaA1(cThis, cOther, params.D),
                         betaA2(c0x2, bx2, 2 * W, side),
                         betaA3(params.D, Bx2, 2 * W, side))

\* TC23Geometry.getK: sigma * sqrt(pi*c) * beta
TC23_getK(c, sigma, params, side) == KOf(sigma, c, TC23_getBeta(c, params, side))

\* the Phi_1 bending table (tc23-data.js): the bending stress at the tip, 1 - 2d
interpPhi1(d1, d2) == 1000 - 2 * d1

\* Solution B2: +Phi1(d1, d2) for the left tip, -Phi1(1 - d2, 1 - d1) for the right
betaB2(c0, b, W, side) ==
    LET d1 == IF b - c0 >= 0 THEN PerMille(b - c0, W) ELSE 0 - PerMille(c0 - b, W)
        d2 == PerMille(b + c0, W)
    IN  IF side = "left" THEN interpPhi1(d1, d2)
        ELSE 0 - interpPhi1(1000 - d2, 1000 - d1)

\* TC23Geometry.getBetaB: A1 * B2
TC23_getBetaB(c, params, side) ==
    LET W  == params.W
        Bx2 == W + 2 * params.e0
        cc == TipPair(c, params, side)
        c0x2 == cc.c1 + params.D + cc.c2
        bx2  == Bx2 + cc.c2 - cc.c1
        cThis  == IF side = "left" THEN cc.c1 ELSE cc.c2
        cOther == IF side = "left" THEN cc.c2 ELSE cc.c1
        bB1 == betaA1(cThis, cOther, params.D)
        bB2 == betaB2(c0x2, bx2, 2 * W, side)
    IN  (bB1 * bB2) \div 1000

\* (beta^A*S0 - beta^B*S2) * sqrt(pi*c), or -1 for beta^A < 0
KTotalOf(c, S0, S2, betaA, betaB) ==
    IF betaA < 0 THEN 0 - 1
    ELSE ((betaA * S0 - betaB * S2) * Isqrt(PiTimes(c))) \div 100

\* TC23Geometry.getK_total; the bearing stress S3 is 0 in every input
TC23_getK_total(c, S0, S3, params, side) ==
    KTotalOf(c, S0, params.S2, TC23_getBeta(c, params, side),
             IF params.S2 # 0 THEN TC23_getBetaB(c, params, side) ELSE 0)

\* TC23Geometry.getMaxCrack: 0.95 of the ligament of the side
TC23_getMaxCrack(params, side) ==
    IF side = "left"
    THEN (95 * (params.W \div 2 + params.e0 - params.D \div 2)) \div 100
    ELSE (95 * (params.W \div 2 - params.e0 - params.D \div 2)) \div 100

\* TC23Geometry.getNetSectionStress: sigma * W / (W - D - c1 - c2); sigma in milli-ksi
TC23_getNetSectionStress(c, sigma1000, params, side) ==
    LET cc == TipPair(c, params, side)
        netWidth == params.W - params.D - cc.c1 - cc.c2
    IN  IF netWidth <= 0 THEN Quot(1, params.W, 0)
        ELSE Quot(sigma1000, params.W, netWidth)

\* an edge crack length that leaves the hole out
getEdgeCrackLength_noHole(cLeft, params) ==
    LET rightLigament == params.W \div 2 - params.e0 - params.D \div 2
    IN  cLeft + rightLigament

\* TC23Geometry.getEdgeCrackLength: c1 + D + (W/2 - e0 - R)
getEdgeCrackLength(cLeft, params) ==
    LET rightLigament == params.W \div 2 - params.e0 - params.D \div 2
    IN  cLeft + params.D + rightLigament

\* Tada/Paris/Irwin SENT polynomials, times 1000
SentRestrained == <<1122, 0 - 561, 0 - 205, 471, 0 - 190>>

SentUnrestrained == <<1122, 0 - 231, 10550, 0 - 21710, 30382>>

betaSENT_restrained(aOverW) == Horner(SentRestrained, aOverW, 1)

betaSENT_unrestrained(aOverW) == Horner(SentUnrestrained, aOverW, 1)

\* beta_U + eta * (beta_R - beta_U); eta in tenths
betaSENT(aOverW, eta) ==
    LET bU == betaSENT_unrestrained(aOverW)
        bR == betaSENT_restrained(aOverW)
    IN  bU + (eta * (bR - bU)) \div 10

\* TC23Geometry.getBetaEdge
getBetaEdge(x, params) ==
    IF x <= 0 THEN 0 - 1
    ELSE IF ProdGeq(100, x, 95, params.W) THEN 0 - 1
    ELSE betaSENT(PerMille(x, params.W),
                  IF params.eta # undefined THEN params.eta ELSE 0)

\* TC23Geometry.getKEdge
getKEdge(x, sigma, params) == KOf(sigma, x, getBetaEdge(x, params))

\* TC23Geometry.getKEdge_total: S_eff = S0 - S2 (+ D/W * S3)
getKEdge_total(x, S0, S3, params) ==
    LET S_eff1000 == 1000 * (S0 - params.S2)
                     + (IF S3 > 0 THEN PerMille(params.D, params.W) * S3 ELSE 0)
    IN  KOf(S_eff1000 \div 1000, x, getBetaEdge(x, params))

\* TC23Geometry.getMaxCrackEdge
getMaxCrackEdge(params) == (95 * params.W) \div 100

\* TC23Geometry.getNetSectionStressEdge; sigma in milli-ksi
getNetSectionStressEdge(x, sigma1000, params) ==
    LET netWidth == params.W - x
    IN  IF netWidth <= 0 THEN Quot(1, params.W, 0)
        ELSE Quot(sigma1000, params.W, netWidth)

-----------------------------------------------------------------------------
(* engine.js -- CrackGrowthEngine: helpers *)

\* failure modes; the program's non-ASCII signs are written in ASCII
Running == "Running"

GeometryLimitAW == "Geometry Limit (a/W)"

GeometryLimit == "Geometry Limit"

FractureSingle == "Fracture (Kmax >= Kc)"

NetSectionYieldSingle == "Net Section Yield"

BelowThreshold == "Below Threshold (No Growth)"

MaxCyclesReached == "Max Cycles Reached"

MaxStepsReached == "Max Steps Reached"

GeometryLimitLeft == "Geometry Limit (left)"

FractureLeft == "Fracture - Left Tip (K1 >= Kc)"

NetSectionYieldDual == "Net Section Yield (sigma_net >= sigma_flow)"

GeometryLimitSentAW == "Geometry Limit (SENT a/W)"

GeometryLimitSent == "Geometry Limit (SENT)"

FractureSent == "TC23 -> SENT: Fracture (K >= Kc)"

NetSectionYieldSent == "TC23 -> SENT: Net Section Yield (sigma_net >= sigma_flow)"

BelowThresholdSent == "TC23 -> SENT: Below Threshold"

\* delta_a tiers of _adaptiveStep: 0.0005, 0.001, 0.002, 0.005 in, and the 1e-8 in floor
StepTier05 == 100000

StepTier15 == 200000

StepTier30 == 400000

StepTierFar == 1000000

StepFloor == 2

\* config.maxCycles || 1e7
DefaultMaxCycles == 10000000

\* config.maxSteps || 50000
DefaultMaxSteps == 50000

maxCyclesOf(cfg) == IF cfg.maxCycles # undefined /\ cfg.maxCycles # 0
                    THEN cfg.maxCycles ELSE DefaultMaxCycles

maxStepsOf(cfg) == IF cfg.maxSteps # undefined /\ cfg.maxSteps # 0
                   THEN cfg.maxSteps ELSE DefaultMaxSteps

\* the step cap reported whenever the counter is at maxSteps
FinalMode_capFirst(stepNow, maxSteps, mode) ==
    IF stepNow >= maxSteps THEN MaxStepsReached ELSE mode

\* the mode of the loop handed on as it is
FinalMode_asIs(stepNow, maxSteps, mode) == mode

\* if (step >= maxSteps && failureMode === 'Running') failureMode = 'Max Steps Reached'
FinalMode(stepNow, maxSteps, mode) ==
    IF stepNow >= maxSteps /\ mode = Running THEN MaxStepsReached ELSE mode

\* a step that is not clipped to the geometry limit
adaptiveStep_noClip(Kmax, KcArg, x, xMax) ==
    LET tier == IF 100 * Kmax > 95 * KcArg THEN StepTier05
                ELSE IF 100 * Kmax > 85 * KcArg THEN StepTier15
                ELSE IF 100 * Kmax > 70 * KcArg THEN StepTier30
                ELSE StepTierFar
    IN  Max(tier, StepFloor)

\* _adaptiveStep(Kmax, Kc, a, aMax)
adaptiveStep(Kmax, KcArg, x, xMax) ==
    LET tier == IF 100 * Kmax > 95 * KcArg THEN StepTier05
                ELSE IF 100 * Kmax > 85 * KcArg THEN StepTier15
                ELSE IF 100 * Kmax > 70 * KcArg THEN StepTier30
                ELSE StepTierFar
        delta_a == IF x + tier > xMax THEN xMax - x ELSE tier
    IN  Max(delta_a, StepFloor)

\* Number.prototype.toFixed: the nearest multiple of q, as a count of q
toFixed(x, q) ==
    IF x >= 0 THEN (2 * x + q) \div (2 * q) ELSE 0 - ((2 * (0 - x) + q) \div (2 * q))

\* a length to 5 decimals of an inch
toFixed5(x) == toFixed(x, 2000)

\* a stress intensity to 3 decimals; -1 is the geometry's invalid value
toFixed3(K) == IF K = 0 - 1 THEN 0 - 1000 ELSE toFixed(K, 141)

\* a beta to 4 decimals; -1 is the geometry's invalid value
toFixed4(beta) == IF beta < 0 THEN 0 - 10000 ELSE 10 * beta

RECURSIVE toExponential3(_)
\* a rate to 4 significant digits
toExponential3(x) ==
    IF x < 10000 THEN x ELSE 10 * toExponential3((x + 5) \div 10)

\* _logEntry(N, a, Kmax, dK, dadN, beta, tag)
logEntry(N_, a_, Kmax, dK, dadN, beta, tag) ==
    [N |-> N_, a |-> toFixed5(a_), twoA |-> toFixed5(2 * a_),
     Kmax |-> toFixed3(Kmax), dK |-> toFixed3(dK),
     dadN |-> IF dadN > 0 THEN toExponential3(dadN) ELSE 0,
     beta |-> toFixed4(beta), tag |-> tag, isDual |-> FALSE]

\* _logEntryDual(N, c1, c2, K1, K2, dK, dadN1, dadN2, beta1, beta2, tag)
logEntryDual(N_, c1_, c2_, K1, K2, dK, dadN1, dadN2, beta1, beta2, tag) ==
    [N |-> N_, c1 |-> toFixed5(c1_), c2 |-> toFixed5(c2_),
     K1 |-> toFixed3(K1), K2 |-> toFixed3(K2), dK |-> toFixed3(dK),
     dadN1 |-> IF dadN1 > 0 THEN toExponential3(dadN1) ELSE 0,
     dadN2 |-> IF dadN2 > 0 THEN toExponential3(dadN2) ELSE 0,
     beta1 |-> toFixed4(beta1), beta2 |-> toFixed4(beta2),
     tag |-> tag, isDual |-> TRUE]

\* r_y = (K / sigma_flow)^2 / (2 * alpha * pi), 0 for K <= 0
plasticZone(K, mat) ==
    LET alpha_pz == IF mat.alpha # 0 THEN mat.alpha ELSE 15
        q == K \div (50 * (mat.Yield + mat.UTS))
    IN  IF K > 0 THEN ((q * q * 10) \div (44 * alpha_pz)) * 700 ELSE 0

\* getGeometry(id).isDualCrack()
isDualCrack(geometryId) == geometryId = "TC23"

\* one geometry call that reads the scratch fields, as the geometry saw it
Call(fn, side, c, params) ==
    [fn |-> fn, side |-> side, c |-> c, sc1 |-> params._c1, sc2 |-> params._c2]

NoResult == [failureMode |-> "none"]

NoData == [N |-> <<>>]

\* no rate: a step that stops at its geometry or fracture check calls no growthRate
NoRate == [dadN |-> 0, dK |-> 0, DKth |-> 0, f |-> 0]

\* NasgroEquation.growthRate(K, R, mat, Kc) of a step that has come to call it
rateOf(K, mat) ==
    IF 0 <= K /\ K < Kc THEN growthRate(K, config.R, mat, Kc) ELSE NoRate

-----------------------------------------------------------------------------
(* engine.js -- _runSingle *)

\* _runSingle up to the loop (lines 38-58)
RunSingleInit(cfg) ==
    /\ pc' = "single"
    /\ Kc' = calcKc(cfg.geomParams.t, cfg.material)
    /\ a' = cfg.a0
    /\ N' = 0
    /\ step' = 0
    /\ failureMode' = Running
    /\ data' = [N |-> <<0>>, a |-> <<cfg.a0>>, twoA |-> <<2 * cfg.a0>>,
                Kmax |-> <<0>>, dK |-> <<0>>, dadN |-> <<0>>, beta |-> <<0>>]
    /\ logEntries' = <<>>
    /\ calls' = <<>>
    /\ UNCHANGED <<c1, c2, aEdge, step_start, transitionCycle, failureSide, result>>

\* a break of the single loop
SingleBreak(mode, log) ==
    /\ failureMode' = mode
    /\ logEntries' = logEntries \o log
    /\ UNCHANGED <<a, N, step, data>>

\* a yield comparison of the single loop with the flow stress
SingleYields_flow(sigmaNet, mat) == QuotGeqHalf(sigmaNet, mat.Yield + mat.UTS)

\* the yield comparison of the single loop: sigmaNet >= mat.Yield
SingleYields(sigmaNet, mat) == QuotGeqHalf(sigmaNet, 2 * mat.Yield)

\* the checks of one iteration in the order the loop makes them (lines 61-85):
\* the mode of the break, or Running when the crack grows
SingleVerdict(x, aMax, Kmax, KcArg, yields, dadN) ==
    IF x >= aMax THEN GeometryLimitAW
    ELSE IF Kmax < 0 THEN GeometryLimit
    ELSE IF Kmax >= KcArg THEN FractureSingle
    ELSE IF yields THEN NetSectionYieldSingle
    ELSE IF dadN <= 0 THEN BelowThreshold
    ELSE Running

\* the growth of one iteration (lines 87-106)
SingleAdvance(Kmax, beta, res, delta_a, delta_N) ==
    /\ logEntries' =
         IF step = 0 \/ step % 50 = 0
         THEN Append(logEntries, logEntry(N, a, Kmax, res.dK, res.dadN, beta, ""))
         ELSE logEntries
    /\ a' = a + delta_a
    /\ N' = N + delta_N
    /\ step' = step + 1
    /\ data' = [N |-> Append(data.N, N + delta_N),
                a |-> Append(data.a, a + delta_a),
                twoA |-> Append(data.twoA, 2 * (a + delta_a)),
                Kmax |-> Append(data.Kmax, Kmax),
                dK |-> Append(data.dK, res.dK),
                dadN |-> Append(data.dadN, res.dadN),
                beta |-> Append(data.beta, beta)]
    /\ failureMode' = IF N + delta_N >= maxCyclesOf(config)
                      THEN MaxCyclesReached ELSE Running

\* the body of the loop of _runSingle for a verdict v
SingleBody(v, aMax, Kmax, beta, res, delta_a) ==
    IF v = GeometryLimitAW \/ v = GeometryLimit THEN SingleBreak(v, <<>>)
    ELSE IF v = FractureSingle
    THEN SingleBreak(v, <<logEntry(N, a, Kmax, 0, 0, beta, "FRACTURE")>>)
    ELSE IF v = NetSectionYieldSingle
    THEN SingleBreak(v, <<logEntry(N, a, Kmax, 0, 0, beta, "NSY")>>)
    ELSE IF v = BelowThreshold
    THEN SingleBreak(v, <<logEntry(N, a, Kmax, res.dK, 0, beta, "THRESHOLD")>>)
    ELSE SingleAdvance(Kmax, beta, res, delta_a, CeilDiv(delta_a, res.dadN))

\* the values of one iteration, each computed once
SingleIteration(p, mat, aMax, Kmax) ==
    \E res \in {rateOf(Kmax, mat)},
       beta \in {TC01_getBeta(a, p)},
       yields \in {SingleYields(TC01_getNetSectionStress(a, config.sigmaMax, p), mat)} :
       \E v \in {SingleVerdict(a, aMax, Kmax, Kc, yields, res.dadN)} :
          SingleBody(v, aMax, Kmax, beta, res, adaptiveStep(Kmax, Kc, a, aMax))

\* one iteration of the while loop of _runSingle (lines 60-107)
SingleStep ==
    /\ pc = "single"
    /\ failureMode = Running
    /\ step < maxStepsOf(config)
    /\ \E Kmax \in {TC01_getK(a, config.sigmaMax, config.geomParams)} :
          SingleIteration(config.geomParams, config.material,
                          TC01_getMaxCrack(config.geomParams), Kmax)
    /\ calls' = <<>>
    /\ UNCHANGED <<pc, caller, config, Kc, c1, c2, aEdge, step_start,
                   transitionCycle, failureSide, result>>

\* after the loop of _runSingle (lines 109-127)
SingleReturn ==
    /\ pc = "single"
    /\ failureMode # Running \/ step >= maxStepsOf(config)
    /\ LET p == config.geomParams
           mode == FinalMode(step, maxStepsOf(config), failureMode)
           finalK == TC01_getK(a, config.sigmaMax, p)
           finalBeta == TC01_getBeta(a, p)
           log == Append(logEntries,
                         logEntry(N, a, Max(finalK, 0), 0, 0, Max(finalBeta, 0), "END"))
       IN  /\ failureMode' = mode
           /\ logEntries' = log
           /\ result' = [failureMode |-> mode, finalCrack |-> a, finalTwoA |-> 2 * a,
                         totalCycles |-> N, totalSteps |-> step, Kc |-> Kc,
                         data |-> data, logEntries |-> log, isDual |-> FALSE]
    /\ pc' = "done"
    /\ calls' = <<>>
    /\ UNCHANGED <<caller, config, Kc, a, c1, c2, aEdge, N, step, step_start,
                   transitionCycle, failureSide, data>>

-----------------------------------------------------------------------------
(* engine.js -- _runDual *)

\* const S3 = config.geomParams.S3 || 0 (an absent field is 0 in the record)
S3Of(cfg) == cfg.geomParams.S3

\* const S2 = config.geomParams.S2 || 0 (an absent field is 0 in the record)
S2Of(cfg) == cfg.geomParams.S2

\* (S3 > 0 || S2 !== 0) && geom.getK_total
useTotal(cfg) == S3Of(cfg) > 0 \/ S2Of(cfg) # 0

\* the closure calcK(c_tip, side), reading the scratch fields of params
calcK(cfg, params, c_tip, side) ==
    IF useTotal(cfg)
    THEN TC23_getK_total(c_tip, cfg.sigmaMax, S3Of(cfg), params, side)
    ELSE TC23_getK(c_tip, cfg.sigmaMax, params, side)

calcKName(cfg) == IF useTotal(cfg) THEN "getK_total" ELSE "getK"

\* a write of the scratch fields that also moves params.a0 to the left length
WithScratch_andStart(params, x1, x2) ==
    [params EXCEPT !._c1 = x1, !._c2 = x2, !.a0 = x1]

\* config.geomParams with the scratch fields written
WithScratch(params, x1, x2) == [params EXCEPT !._c1 = x1, !._c2 = x2]

\* a correction that is taken whatever its value
Accept_any(K_corr, K) == K_corr

\* if (K_corr > 0) K = K_corr
Accept(K_corr, K) == IF K_corr > 0 THEN K_corr ELSE K

\* one iteration of the Irwin loop of _runDual (lines 206-219)
IrwinDual(cfg, x1, x2, k) ==
    LET ry1 == plasticZone(k.K1, cfg.material)
        ry2 == plasticZone(k.K2, cfg.material)
        p == WithScratch(cfg.geomParams, x1 + ry1, x2 + ry2)
    IN  The({ [K1 |-> Accept(K1_corr, k.K1), K2 |-> Accept(K2_corr, k.K2),
               ry1 |-> ry1, ry2 |-> ry2] :
              K1_corr \in {calcK(cfg, p, x1 + ry1, "left")},
              K2_corr \in {calcK(cfg, p, x2 + ry2, "right")} })

\* the first pass of a step: LEFM K with the physical crack lengths (lines 185-197)
FirstPass(cfg, x1, x2) ==
    [K1 |-> calcK(cfg, WithScratch(cfg.geomParams, x1, x2), x1, "left"),
     K2 |-> calcK(cfg, WithScratch(cfg.geomParams, x1, x2), x2, "right"),
     ry1 |-> 0, ry2 |-> 0]

\* the K1, K2 a step uses, with the three passes that led to them
IrwinPack(k0, k1, k2) ==
    [K1 |-> k2.K1, K2 |-> k2.K2, first |-> k0, second |-> k1, third |-> k2]

\* for (pzIter = 0; pzIter < 2; pzIter++): the second iteration
IrwinSecond(cfg, x1, x2, k0, k1) ==
    The({ IrwinPack(k0, k1, k2) : k2 \in {IrwinDual(cfg, x1, x2, k1)} })

\* for (pzIter = 0; pzIter < 2; pzIter++): the first iteration
IrwinFirst(cfg, x1, x2, k0) ==
    The({ IrwinSecond(cfg, x1, x2, k0, k1) : k1 \in {IrwinDual(cfg, x1, x2, k0)} })

\* K1, K2 of a step: first pass and the two Irwin iterations (lines 185-219)
DualK(cfg, x1, x2) ==
    The({ IrwinFirst(cfg, x1, x2, k0) : k0 \in {FirstPass(cfg, x1, x2)} })

\* the geometry calls of lines 196-214, with the scratch fields each one saw
DualKCalls(cfg, x1, x2, k) ==
    LET p0 == WithScratch(cfg.geomParams, x1, x2)
        p1 == WithScratch(cfg.geomParams, x1 + k.second.ry1, x2 + k.second.ry2)
        p2 == WithScratch(cfg.geomParams, x1 + k.third.ry1, x2 + k.third.ry2)
        f  == calcKName(cfg)
    IN  <<Call(f, "left", x1, p0), Call(f, "right", x2, p0),
          Call(f, "left", x1 + k.second.ry1, p1), Call(f, "right", x2 + k.second.ry2, p1),
          Call(f, "left", x1 + k.third.ry1, p2), Call(f, "right", x2 + k.third.ry2, p2)>>

\* S_gross = sigmaMax + (S3 > 0 ? D/W * S3 : 0), in milli-ksi
S_gross(cfg) ==
    1000 * cfg.sigmaMax
    + (IF S3Of(cfg) > 0
       THEN PerMille(cfg.geomParams.D, cfg.geomParams.W) * S3Of(cfg) ELSE 0)

\* sigma_flow_nsy = (Yield + UTS) / 2, doubled
sigma_flow2(mat) == mat.Yield + mat.UTS

\* every growing tip advanced by the whole of delta_a
TipAdvance_whole(r, maxDadN, delta_a) == IF r <= 0 THEN 0 ELSE delta_a

\* the share of delta_a a tip with rate r gets: r * (delta_a / maxDadN)
TipAdvance(r, maxDadN, delta_a) ==
    IF r <= 0 THEN 0
    ELSE IF r = maxDadN THEN delta_a
    ELSE (delta_a * PerMille(r, maxDadN)) \div 1000

\* _runDual up to the loop (lines 133-168)
RunDualInit(cfg) ==
    LET x1 == cfg.a0
        x2 == IF cfg.a0_2 # undefined THEN cfg.a0_2 ELSE cfg.a0
    IN  /\ pc' = "dual"
        /\ Kc' = calcKc(cfg.geomParams.t, cfg.material)
        /\ c1' = x1
        /\ c2' = x2
        /\ N' = 0
        /\ step' = 0
        /\ failureMode' = Running
        /\ failureSide' = "null"
        /\ data' = [N |-> <<0>>, c1 |-> <<x1>>, c2 |-> <<x2>>,
                    a |-> <<Max(x1, x2)>>, twoA |-> <<2 * Max(x1, x2)>>,
                    Kmax |-> <<0>>, Kmax1 |-> <<0>>, Kmax2 |-> <<0>>,
                    dK |-> <<0>>, dadN |-> <<0>>, beta1 |-> <<0>>, beta2 |-> <<0>>]
        /\ logEntries' = <<>>
        /\ calls' = <<>>
        /\ UNCHANGED <<a, aEdge, step_start, transitionCycle, result>>

\* a break of the dual loop
DualBreak(mode, side, log) ==
    /\ failureMode' = mode
    /\ failureSide' = side
    /\ logEntries' = logEntries \o log
    /\ UNCHANGED <<pc, c1, c2, aEdge, N, step, step_start, transitionCycle, data>>

\* a link-up that starts the edge loop with a fresh step counter
LinkUp_restart(log) ==
    /\ pc' = "edge"
    /\ logEntries' = Append(logEntries, log)
    /\ transitionCycle' = N
    /\ aEdge' = getEdgeCrackLength(c1, config.geomParams)
    /\ step_start' = 0
    /\ failureMode' = Running
    /\ step' = 0
    /\ UNCHANGED <<c1, c2, N, failureSide, data>>

\* a link-up that writes no entry to the log
LinkUp_silent(log) ==
    /\ pc' = "edge"
    /\ logEntries' = logEntries
    /\ transitionCycle' = N
    /\ aEdge' = getEdgeCrackLength(c1, config.geomParams)
    /\ step_start' = step
    /\ failureMode' = Running
    /\ UNCHANGED <<c1, c2, N, step, failureSide, data>>

\* return this._runEdgeCrackPhase(config, geom, c1, N, step, data, logEntries, Kc):
\* the LINK-UP entry and _runEdgeCrackPhase up to its loop (lines 354-373)
LinkUp(log) ==
    /\ pc' = "edge"
    /\ logEntries' = Append(logEntries, log)
    /\ transitionCycle' = N
    /\ aEdge' = getEdgeCrackLength(c1, config.geomParams)
    /\ step_start' = step
    /\ failureMode' = Running
    /\ UNCHANGED <<c1, c2, N, step, failureSide, data>>

\* the checks of a dual step with a right-tip fracture that ends the run
DualVerdict_rightFracture(x1, c1Max, x2, c2Max, K1, K2, KcArg, yields1, yields2, dadN1, dadN2) ==
    IF x1 >= c1Max THEN "limit-c1"
    ELSE IF x2 >= c2Max THEN "linkup-c2"
    ELSE IF K1 < 0 THEN "limit-K1"
    ELSE IF K2 < 0 THEN "linkup-K2-invalid"
    ELSE IF K1 >= KcArg \/ K2 >= KcArg THEN "fracture-K1"
    ELSE IF yields1 \/ yields2 THEN "nsy"
    ELSE IF dadN1 <= 0 /\ dadN2 <= 0 THEN "threshold"
    ELSE "grow"

\* the checks of a dual step that stops as soon as one tip is below threshold
DualVerdict_anyArrested(x1, c1Max, x2, c2Max, K1, K2, KcArg, yields1, yields2, dadN1, dadN2) ==
    IF x1 >= c1Max THEN "limit-c1"
    ELSE IF x2 >= c2Max THEN "linkup-c2"
    ELSE IF K1 < 0 THEN "limit-K1"
    ELSE IF K2 < 0 THEN "linkup-K2-invalid"
    ELSE IF K1 >= KcArg THEN "fracture-K1"
    ELSE IF K2 >= KcArg THEN "linkup-K2"
    ELSE IF yields1 \/ yields2 THEN "nsy"
    ELSE IF dadN1 <= 0 \/ dadN2 <= 0 THEN "threshold"
    ELSE "grow"

\* the checks of a dual step with the right tip looked at before the left one
DualVerdict_rightFirst(x1, c1Max, x2, c2Max, K1, K2, KcArg, yields1, yields2, dadN1, dadN2) ==
    IF x2 >= c2Max THEN "linkup-c2"
    ELSE IF x1 >= c1Max THEN "limit-c1"
    ELSE IF K2 < 0 THEN "linkup-K2-invalid"
    ELSE IF K1 < 0 THEN "limit-K1"
    ELSE IF K2 >= KcArg THEN "linkup-K2"
    ELSE IF K1 >= KcArg THEN "fracture-K1"
    ELSE IF yields1 \/ yields2 THEN "nsy"
    ELSE IF dadN1 <= 0 /\ dadN2 <= 0 THEN "threshold"
    ELSE "grow"

\* the checks of one iteration in the order the loop makes them (lines 172-272)
DualVerdict(x1, c1Max, x2, c2Max, K1, K2, KcArg, yields1, yields2, dadN1, dadN2) ==
    IF x1 >= c1Max THEN "limit-c1"
    ELSE IF x2 >= c2Max THEN "linkup-c2"
    ELSE IF K1 < 0 THEN "limit-K1"
    ELSE IF K2 < 0 THEN "linkup-K2-invalid"
    ELSE IF K1 >= KcArg THEN "fracture-K1"
    ELSE IF K2 >= KcArg THEN "linkup-K2"
    ELSE IF yields1 \/ yields2 THEN "nsy"
    ELSE IF dadN1 <= 0 /\ dadN2 <= 0 THEN "threshold"
    ELSE "grow"

\* the growth of one iteration (lines 275-311)
DualAdvance(K1, K2, beta1, beta2, res1, res2, delta_a) ==
    LET maxDadN == Max(res1.dadN, res2.dadN)
        delta_N == CeilDiv(delta_a, maxDadN)
        dc1 == TipAdvance(res1.dadN, maxDadN, delta_a)
        dc2 == TipAdvance(res2.dadN, maxDadN, delta_a)
    IN  /\ logEntries' =
             IF step = 0 \/ step % 50 = 0
             THEN Append(logEntries,
                         logEntryDual(N, c1, c2, K1, K2, res1.dK,
                                      res1.dadN, res2.dadN, beta1, beta2, ""))
             ELSE logEntries
        /\ c1' = c1 + dc1
        /\ c2' = c2 + dc2
        /\ N' = N + delta_N
        /\ step' = step + 1
        /\ data' = [N |-> Append(data.N, N + delta_N),
                    c1 |-> Append(data.c1, c1 + dc1),
                    c2 |-> Append(data.c2, c2 + dc2),
                    a |-> Append(data.a, Max(c1 + dc1, c2 + dc2)),
                    twoA |-> Append(data.twoA, 2 * Max(c1 + dc1, c2 + dc2)),
                    Kmax |-> Append(data.Kmax, Max(K1, K2)),
                    Kmax1 |-> Append(data.Kmax1, K1),
                    Kmax2 |-> Append(data.Kmax2, K2),
                    dK |-> Append(data.dK, Max(res1.dK, res2.dK)),
                    dadN |-> Append(data.dadN, maxDadN),
                    beta1 |-> Append(data.beta1, beta1),
                    beta2 |-> Append(data.beta2, beta2)]
        /\ failureMode' = IF N + delta_N >= maxCyclesOf(config)
                          THEN MaxCyclesReached ELSE Running
        /\ UNCHANGED <<pc, aEdge, step_start, transitionCycle, failureSide>>

\* the body of the loop of _runDual for a verdict v
DualBody(v, p, p0, k, kCalls, beta1, beta2, res1, res2, delta_a, yields1) ==
    LET betaCalls == <<Call("getBeta", "left", c1, p0), Call("getBeta", "right", c2, p0)>>
        netCalls == <<Call("getNetSectionStress", "left", c1, p0),
                      Call("getNetSectionStress", "right", c2, p0)>>
    IN  IF v = "limit-c1"
        THEN /\ DualBreak(GeometryLimitLeft, "left", <<>>)
             /\ calls' = <<>>
             /\ config' = config
        ELSE IF v = "linkup-c2"
        THEN /\ LinkUp(logEntryDual(N, c1, c2,
                                    TC23_getK(c1, config.sigmaMax, p, "left"),
                                    TC23_getK(c2, config.sigmaMax, p, "right"), 0, 0, 0,
                                    TC23_getBeta(c1, p, "left"),
                                    TC23_getBeta(c2, p, "right"), "LINK-UP"))
             /\ calls' = <<Call("getK", "left", c1, p), Call("getK", "right", c2, p),
                           Call("getBeta", "left", c1, p), Call("getBeta", "right", c2, p)>>
             /\ config' = config
        ELSE /\ config' = [config EXCEPT !.geomParams = p0]
             /\ IF v = "limit-K1"
                THEN /\ DualBreak(GeometryLimitLeft, "left", <<>>)
                     /\ calls' = kCalls
                ELSE IF v = "linkup-K2-invalid"
                THEN /\ LinkUp(logEntryDual(N, c1, c2, Max(k.K1, 0), 0, 0, 0, 0,
                                            beta1, 0, "LINK-UP"))
                     /\ calls' = kCalls \o <<Call("getBeta", "left", c1, p0)>>
                ELSE IF v = "fracture-K1"
                THEN /\ DualBreak(FractureLeft, "left",
                                  <<logEntryDual(N, c1, c2, k.K1, k.K2, 0, 0, 0,
                                                 beta1, beta2, "FRACTURE-L")>>)
                     /\ calls' = kCalls \o betaCalls
                ELSE IF v = "linkup-K2"
                THEN /\ LinkUp(logEntryDual(N, c1, c2, k.K1, k.K2, 0, 0, 0,
                                            beta1, beta2, "LINK-UP"))
                     /\ calls' = kCalls \o betaCalls
                ELSE IF v = "nsy"
                THEN /\ DualBreak(NetSectionYieldDual,
                                  IF yields1 THEN "left" ELSE "right",
                                  <<logEntryDual(N, c1, c2, k.K1, k.K2, 0, 0, 0,
                                                 beta1, beta2, "NSY")>>)
                     /\ calls' = kCalls \o betaCalls \o netCalls
                ELSE IF v = "threshold"
                THEN /\ DualBreak(BelowThreshold, failureSide,
                                  <<logEntryDual(N, c1, c2, k.K1, k.K2, res1.dK, 0, 0,
                                                 beta1, beta2, "THRESHOLD")>>)
                     /\ calls' = kCalls \o betaCalls \o netCalls
                ELSE /\ DualAdvance(k.K1, k.K2, beta1, beta2, res1, res2, delta_a)
                     /\ calls' = kCalls \o betaCalls \o netCalls

\* the values of one iteration, each computed once
DualIteration(p, mat, c1Max, c2Max, p0, k) ==
    \E res1 \in {rateOf(k.K1, mat)},
       res2 \in {rateOf(k.K2, mat)},
       beta1 \in {TC23_getBeta(c1, p0, "left")},
       beta2 \in {TC23_getBeta(c2, p0, "right")},
       yields1 \in {QuotGeqHalf(TC23_getNetSectionStress(c1, S_gross(config), p0, "left"),
                                sigma_flow2(mat))},
       yields2 \in {QuotGeqHalf(TC23_getNetSectionStress(c2, S_gross(config), p0, "right"),
                                sigma_flow2(mat))} :
       \E v \in {DualVerdict(c1, c1Max, c2, c2Max, k.K1, k.K2, Kc,
                              yields1, yields2, res1.dadN, res2.dadN)} :
          DualBody(v, p, p0, k, DualKCalls(config, c1, c2, k),
                   beta1, beta2, res1, res2,
                   adaptiveStep(Max(k.K1, k.K2), Kc, Max(c1, c2), Min(c1Max, c2Max)),
                   yields1)

\* one iteration of the while loop of _runDual (lines 170-312)
DualStep ==
    /\ pc = "dual"
    /\ failureMode = Running
    /\ step < maxStepsOf(config)
    /\ \E k \in {DualK(config, c1, c2)} :
          DualIteration(config.geomParams, config.material,
                        TC23_getMaxCrack(config.geomParams, "left"),
                        TC23_getMaxCrack(config.geomParams, "right"),
                        WithScratch(config.geomParams, c1, c2), k)
    /\ UNCHANGED <<caller, Kc, a, result>>

\* after the loop of _runDual (lines 314-340)
DualReturn ==
    /\ pc = "dual"
    /\ failureMode # Running \/ step >= maxStepsOf(config)
    /\ LET p == config.geomParams
           mode == FinalMode(step, maxStepsOf(config), failureMode)
           fK1 == TC23_getK(c1, config.sigmaMax, p, "left")
           fK2 == TC23_getK(c2, config.sigmaMax, p, "right")
           fb1 == TC23_getBeta(c1, p, "left")
           fb2 == TC23_getBeta(c2, p, "right")
           log == Append(logEntries,
                         logEntryDual(N, c1, c2, Max(fK1, 0), Max(fK2, 0), 0, 0, 0,
                                      Max(fb1, 0), Max(fb2, 0), "END"))
       IN  /\ failureMode' = mode
           /\ logEntries' = log
           /\ calls' = <<Call("getK", "left", c1, p), Call("getK", "right", c2, p),
                         Call("getBeta", "left", c1, p), Call("getBeta", "right", c2, p)>>
           /\ result' = [failureMode |-> mode, failureSide |-> failureSide,
                         finalCrack |-> Max(c1, c2), finalC1 |-> c1, finalC2 |-> c2,
                         finalTwoA |-> 2 * Max(c1, c2),
                         totalCycles |-> N, totalSteps |-> step, Kc |-> Kc,
                         data |-> data, logEntries |-> log, isDual |-> TRUE]
    /\ pc' = "done"
    /\ UNCHANGED <<caller, config, Kc, a, c1, c2, aEdge, N, step, step_start,
                   transitionCycle, failureSide, data>>

-----------------------------------------------------------------------------
(* engine.js -- _runEdgeCrackPhase *)

\* c2_frozen = W/2 - e0 - R_hole
c2_frozen(cfg) ==
    cfg.geomParams.W \div 2 - cfg.geomParams.e0 - cfg.geomParams.D \div 2

\* the closure calcKEdge(a)
calcKEdge(cfg, x) ==
    IF useTotal(cfg)
    THEN getKEdge_total(x, cfg.sigmaMax, S3Of(cfg), cfg.geomParams)
    ELSE getKEdge(x, cfg.sigmaMax, cfg.geomParams)

\* an Irwin iteration that leaves K as it is
IrwinEdge_none(cfg, x, Kmax) == Kmax

\* one iteration of the Irwin loop of _runEdgeCrackPhase (lines 404-408)
IrwinEdge(cfg, x, Kmax) ==
    The({ Accept(K_corr, Kmax) :
          K_corr \in {calcKEdge(cfg, x + plasticZone(Kmax, cfg.material))} })

\* Kmax of an edge step: first pass and the two Irwin iterations (lines 398-408)
EdgeK(cfg, x) ==
    The({ The({ IrwinEdge(cfg, x, K1) : K1 \in {IrwinEdge(cfg, x, K0)} }) :
          K0 \in {calcKEdge(cfg, x)} })

\* a break of the edge loop
EdgeBreak(mode, log) ==
    /\ failureMode' = mode
    /\ logEntries' = logEntries \o log
    /\ UNCHANGED <<c1, aEdge, N, step, data>>

\* the checks of an edge step with net-section yield tested before fracture
EdgeVerdict_yieldFirst(x, aEdgeMax, Kmax, KcArg, yields, dadN) ==
    IF x >= aEdgeMax THEN GeometryLimitSentAW
    ELSE IF Kmax < 0 THEN GeometryLimitSent
    ELSE IF yields THEN NetSectionYieldSent
    ELSE IF Kmax >= KcArg THEN FractureSent
    ELSE IF dadN <= 0 THEN BelowThresholdSent
    ELSE Running

\* the checks of one iteration in the order the loop makes them (lines 388-439)
EdgeVerdict(x, aEdgeMax, Kmax, KcArg, yields, dadN) ==
    IF x >= aEdgeMax THEN GeometryLimitSentAW
    ELSE IF Kmax < 0 THEN GeometryLimitSent
    ELSE IF Kmax >= KcArg THEN FractureSent
    ELSE IF yields THEN NetSectionYieldSent
    ELSE IF dadN <= 0 THEN BelowThresholdSent
    ELSE Running

\* a growth of the edge loop that leaves the frozen right-tip series alone
EdgeAdvance_frozenSeries(Kmax, betaEdge, res, delta_a, delta_N, aNext) ==
    /\ logEntries' =
         IF step - step_start = 0 \/ (step - step_start) % 50 = 0
         THEN Append(logEntries,
                     logEntry(N, aEdge, Kmax, res.dK, res.dadN, betaEdge, "SENT"))
         ELSE logEntries
    /\ c1' = c1 + delta_a
    /\ aEdge' = aNext
    /\ N' = N + delta_N
    /\ step' = step + 1
    /\ data' = [data EXCEPT !.N = Append(data.N, N + delta_N),
                            !.c1 = Append(data.c1, c1 + delta_a),
                            !.a = Append(data.a, aNext),
                            !.twoA = Append(data.twoA, 2 * aNext),
                            !.Kmax = Append(data.Kmax, Kmax),
                            !.Kmax1 = Append(data.Kmax1, Kmax),
                            !.dK = Append(data.dK, res.dK),
                            !.dadN = Append(data.dadN, res.dadN),
                            !.beta1 = Append(data.beta1, betaEdge)]
    /\ failureMode' = IF N + delta_N >= maxCyclesOf(config)
                      THEN MaxCyclesReached ELSE Running

\* a growth of the edge loop that records the right crack as it was at link-up
EdgeAdvance_lastC2(Kmax, betaEdge, res, delta_a, delta_N, aNext) ==
    /\ logEntries' =
         IF step - step_start = 0 \/ (step - step_start) % 50 = 0
         THEN Append(logEntries,
                     logEntry(N, aEdge, Kmax, res.dK, res.dadN, betaEdge, "SENT"))
         ELSE logEntries
    /\ c1' = c1 + delta_a
    /\ aEdge' = aNext
    /\ N' = N + delta_N
    /\ step' = step + 1
    /\ data' = [N |-> Append(data.N, N + delta_N),
                c1 |-> Append(data.c1, c1 + delta_a),
                c2 |-> Append(data.c2, c2),
                a |-> Append(data.a, aNext),
                twoA |-> Append(data.twoA, 2 * aNext),
                Kmax |-> Append(data.Kmax, Kmax),
                Kmax1 |-> Append(data.Kmax1, Kmax),
                Kmax2 |-> Append(data.Kmax2, 0),
                dK |-> Append(data.dK, res.dK),
                dadN |-> Append(data.dadN, res.dadN),
                beta1 |-> Append(data.beta1, betaEdge),
                beta2 |-> Append(data.beta2, 0)]
    /\ failureMode' = IF N + delta_N >= maxCyclesOf(config)
                      THEN MaxCyclesReached ELSE Running

\* the growth of one iteration (lines 441-467)
EdgeAdvance(Kmax, betaEdge, res, delta_a, delta_N, aNext) ==
    /\ logEntries' =
         IF step - step_start = 0 \/ (step - step_start) % 50 = 0
         THEN Append(logEntries,
                     logEntry(N, aEdge, Kmax, res.dK, res.dadN, betaEdge, "SENT"))
         ELSE logEntries
    /\ c1' = c1 + delta_a
    /\ aEdge' = aNext
    /\ N' = N + delta_N
    /\ step' = step + 1
    /\ data' = [N |-> Append(data.N, N + delta_N),
                c1 |-> Append(data.c1, c1 + delta_a),
                c2 |-> Append(data.c2, c2_frozen(config)),
                a |-> Append(data.a, aNext),
                twoA |-> Append(data.twoA, 2 * aNext),
                Kmax |-> Append(data.Kmax, Kmax),
                Kmax1 |-> Append(data.Kmax1, Kmax),
                Kmax2 |-> Append(data.Kmax2, 0),
                dK |-> Append(data.dK, res.dK),
                dadN |-> Append(data.dadN, res.dadN),
                beta1 |-> Append(data.beta1, betaEdge),
                beta2 |-> Append(data.beta2, 0)]
    /\ failureMode' = IF N + delta_N >= maxCyclesOf(config)
                      THEN MaxCyclesReached ELSE Running

\* the body of the loop of _runEdgeCrackPhase for a verdict v
EdgeBody(v, Kmax, betaEdge, res, delta_a) ==
    IF v = GeometryLimitSentAW \/ v = GeometryLimitSent THEN EdgeBreak(v, <<>>)
    ELSE IF v = FractureSent
    THEN EdgeBreak(v, <<logEntry(N, aEdge, Kmax, 0, 0, betaEdge, "FRACTURE")>>)
    ELSE IF v = NetSectionYieldSent
    THEN EdgeBreak(v, <<logEntry(N, aEdge, Kmax, 0, 0, betaEdge, "NSY")>>)
    ELSE IF v = BelowThresholdSent
    THEN EdgeBreak(v, <<logEntry(N, aEdge, Kmax, res.dK, 0, betaEdge, "THRESHOLD")>>)
    ELSE EdgeAdvance(Kmax, betaEdge, res, delta_a, CeilDiv(delta_a, res.dadN),
                     getEdgeCrackLength(c1 + delta_a, config.geomParams))

\* the values of one iteration, each computed once
EdgeIteration(p, mat, aEdgeMax, Kmax) ==
    \E res \in {rateOf(Kmax, mat)},
       betaEdge \in {getBetaEdge(aEdge, p)},
       yields \in {QuotGeqHalf(getNetSectionStressEdge(aEdge, S_gross(config), p),
                               sigma_flow2(mat))} :
       \E v \in {EdgeVerdict(aEdge, aEdgeMax, Kmax, Kc, yields, res.dadN)} :
          EdgeBody(v, Kmax, betaEdge, res, adaptiveStep(Kmax, Kc, aEdge, aEdgeMax))

\* one iteration of the while loop of _runEdgeCrackPhase (lines 387-468)
EdgeStep ==
    /\ pc = "edge"
    /\ failureMode = Running
    /\ step < maxStepsOf(config)
    /\ \E Kmax \in {EdgeK(config, aEdge)} :
          EdgeIteration(config.geomParams, config.material,
                        getMaxCrackEdge(config.geomParams), Kmax)
    /\ calls' = <<>>
    /\ UNCHANGED <<pc, caller, config, Kc, a, c2, step_start, transitionCycle,
                   failureSide, result>>

\* after the loop of _runEdgeCrackPhase (lines 470-494)
EdgeReturn ==
    /\ pc = "edge"
    /\ failureMode # Running \/ step >= maxStepsOf(config)
    /\ LET p == config.geomParams
           mode == FinalMode(step, maxStepsOf(config), failureMode)
           fK == getKEdge(aEdge, config.sigmaMax, p)
           fBeta == getBetaEdge(aEdge, p)
           log == Append(logEntries,
                         logEntry(N, aEdge, Max(fK, 0), 0, 0, Max(fBeta, 0), "END"))
       IN  /\ failureMode' = mode
           /\ logEntries' = log
           /\ result' = [failureMode |-> mode, failureSide |-> "right",
                         finalCrack |-> aEdge, finalC1 |-> c1,
                         finalC2 |-> c2_frozen(config), finalTwoA |-> 2 * aEdge,
                         totalCycles |-> N, totalSteps |-> step, Kc |-> Kc,
                         data |-> data, logEntries |-> log, isDual |-> TRUE,
                         hasTransition |-> TRUE, transitionCycle |-> transitionCycle]
    /\ pc' = "done"
    /\ calls' = <<>>
    /\ UNCHANGED <<caller, config, Kc, a, c1, c2, aEdge, N, step, step_start,
                   transitionCycle, failureSide, data>>

-----------------------------------------------------------------------------
(* engine.js -- run; test-tc05.js -- runAnalysis *)

\* CrackGrowthEngine.run(config): dispatch on isDualCrack (lines 26-33)
EngineRun(cfg) ==
    IF isDualCrack(cfg.geometryId) THEN RunDualInit(cfg) ELSE RunSingleInit(cfg)

\* a direct call of CrackGrowthEngine.run with the configuration as given
run ==
    /\ pc = "input"
    /\ caller' = "run"
    /\ config' = config
    /\ EngineRun(config)

\* the validation of runAnalysis (lines 803-806)
Rejected(form) ==
    \/ form.sigmaMax <= 0
    \/ form.R >= 10
    \/ form.geomParams.a0 <= 0

\* the engineConfig runAnalysis builds from the form (lines 808-825)
engineConfig(form) ==
    [form EXCEPT !.a0 = form.geomParams.a0,
                 !.a0_2 = IF isDualCrack(form.geometryId)
                          THEN form.geomParams.a0_2 ELSE undefined,
                 !.maxCycles = maxCyclesOf(form),
                 !.maxSteps = undefined]

\* runAnalysis(): validate the form, then run the engine; a throw shows the error
runAnalysis ==
    /\ pc = "input"
    /\ config.maxSteps = undefined
    /\ caller' = "runAnalysis"
    /\ IF Rejected(config)
       THEN /\ pc' = "rejected"
            /\ UNCHANGED <<config, Kc, a, c1, c2, aEdge, N, step, step_start,
                           transitionCycle, failureMode, failureSide, data,
                           logEntries, calls, result>>
       ELSE /\ config' = engineConfig(config)
            /\ EngineRun(engineConfig(config))

-----------------------------------------------------------------------------
(* Inputs *)

\* the largest maxSteps a caller passes explicitly
MaxStepsBound == 3

\* a material record (materials.js); K1c and DK1 in K units, Bk, alpha, Smax_S0
\* and the Cth in tenths, integer exponents
Material(K1c, DK1) ==
    [Yield |-> 53, UTS |-> 66, K1c |-> K1c, Ak |-> 1, Bk |-> 15,
     C |-> 1, n |-> 3, p |-> 1, q |-> 1, DK1 |-> DK1,
     Cth_plus |-> 20, Cth_minus |-> 1, alpha |-> 20, Smax_S0 |-> 3,
     alpha_th |-> undefined, Smax_S0_th |-> undefined]

\* what a caller hands over: the form of the page, or the config of a direct call
Form(id, x1, x2, e0, eta, S2, sigma, R10, mat, maxCycles, maxSteps) ==
    [geometryId |-> id,
     geomParams |-> [W |-> 20000000, t |-> 1000000, D |-> 4000000, e0 |-> e0,
                     eta |-> eta, S2 |-> S2, S3 |-> 0, a0 |-> x1, a0_2 |-> x2,
                     _c1 |-> undefined, _c2 |-> undefined],
     a0 |-> x1, a0_2 |-> x2, sigmaMax |-> sigma, R |-> R10, material |-> mat,
     maxCycles |-> maxCycles, maxSteps |-> maxSteps, Kc_override |-> undefined]

Tough == Material(2000000, 150000)

Brittle == Material(600000, 150000)

Sensitive == Material(2000000, 20000)

\* centre-crack runs of the page
SingleForms ==
    { Form("TC01", x, undefined, 0, 0, 0, sigma, 1, mat, 0, undefined) :
        x \in {0, 2500000, 4500000, 9499999, 9500000},
        sigma \in {0, 2, 20}, mat \in {Tough, Brittle, Sensitive} }

\* hole-crack runs of the page
DualForms ==
    { Form("TC23", x1, x2, 0, eta, 0, sigma, R10, mat, 0, undefined) :
        x1 \in {1000000, 3000000, 6999999}, x2 \in {1000000, 2000000, 7599999, 7600000},
        eta \in {0, 10}, sigma \in {2, 10, 20}, R10 \in {1, 10},
        mat \in {Tough, Brittle, Sensitive} }

\* direct calls of the engine with explicit caps
DirectConfigs ==
    { Form(id, x1, x2, e0, eta, S2, 10, 1, Tough, maxCycles, maxSteps) :
        id \in {"TC01", "TC23"}, x1 \in {2500000},
        x2 \in {1000000, 3000000, 5699999, 7599999},
        e0 \in {0, 2000000}, eta \in {0, 10}, S2 \in {0, 20, 0 - 20},
        maxCycles \in {0, 10000}, maxSteps \in 1..MaxStepsBound }

\* direct calls with an offset hole and a long left crack: c1 beyond the limit
\* of the right crack (5700000), or within a step of it
OffsetConfigs ==
    { Form("TC23", x1, 1000000, 2000000, 0, 0, 10, 1, Tough, 0, maxSteps) :
        x1 \in {5500000, 6000000}, maxSteps \in 1..MaxStepsBound }

\* the step cap of a run long enough to pass the 50th step of its loop
LongRunSteps == 51

\* a direct call whose dual loop advances by the floor of the step up to the cap
LongRunConfigs ==
    { Form("TC23", 6000000, 1000000, 2000000, 0, 0, 10, 1, Tough, 0, LongRunSteps) }

\* runs of the page with the Kc override field filled in (mat-Kc-override)
OverrideForms ==
    { [f EXCEPT !.Kc_override = 500000] :
        f \in { Form("TC01", 2500000, undefined, 0, 0, 0, 20, 1, Tough, 0, undefined),
                Form("TC23", 1000000, 2000000, 0, 0, 0, 20, 1, Tough, 0, undefined) } }

\* a direct call with a bending stress S2 of four times the tension
BendingConfigs ==
    { Form("TC23", 2500000, 1000000, 0, 0, 40, 10, 1, Tough, 0, 1) }

\* a run of the page with a right crack longer than the right ligament (8000000)
OverlongForms ==
    { Form("TC23", 1000000, 9000000, 0, 0, 0, 20, 1, Tough, 0, undefined) }

\* a direct call with no crack at either side of the hole
UncrackedConfigs ==
    { Form("TC23", 0, 0, 0, 0, 0, 10, 1, Tough, 0, 1) }

Inputs == SingleForms \cup DualForms \cup DirectConfigs \cup OffsetConfigs
          \cup LongRunConfigs \cup OverrideForms \cup BendingConfigs
          \cup OverlongForms \cup UncrackedConfigs

-----------------------------------------------------------------------------
(* Specification *)

Init ==
    /\ pc = "input"
    /\ caller = "none"
    /\ config \in Inputs
    /\ Kc = 0
    /\ a = 0
    /\ c1 = 0
    /\ c2 = 0
    /\ aEdge = 0
    /\ N = 0
    /\ step = 0
    /\ step_start = 0
    /\ transitionCycle = undefined
    /\ failureMode = "none"
    /\ failureSide = "null"
    /\ data = NoData
    /\ logEntries = <<>>
    /\ calls = <<>>
    /\ result = NoResult

Next ==
    \/ runAnalysis
    \/ run
    \/ SingleStep
    \/ SingleReturn
    \/ DualStep
    \/ DualReturn
    \/ EdgeStep
    \/ EdgeReturn

Spec == Init /\ [][Next]_vars

-----------------------------------------------------------------------------
(* The geometry interface called on its own: beta and SIF of each variant.   *)
(* config holds the arguments of the calls (a0 the crack length, sigmaMax the *)
(* stress, geomParams the params object), calls the calls made so far with    *)
(* the value each one returned.                                               *)

\* the number of geometry calls made on one params object
MaxCalls == 2

\* arguments of the calls: TC01 over the whole range of a/W, TC05 in its three
\* configurations, TC23 with and without the scratch fields and a second crack
GeomInputs ==
    { Form("TC01", x, undefined, 0, 0, 0, 20, 1, Tough, 0, undefined) :
        x \in {0, 2500000, 5000000, 9000000, 9500000, 9989999, 9990000, 10000000,
               12000000, 18999999, 19000000, 20000000} }
    \cup
    { [geometryId |-> "TC05", a0 |-> c, sigmaMax |-> 20,
       geomParams |-> [a0 |-> c, D |-> D, H |-> H, t |-> 1000000,
                       config |-> cfg, S3 |-> S3]] :
        c \in {0, 1000000, 3000000, 6000000}, D \in {0, 4000000, 8000000, 20000000},
        H \in {20000000, 40000000}, cfg \in {"single", "double_one", "double_all"},
        S3 \in {0, 5} }
    \cup
    { [f EXCEPT !.geomParams.W = W, !.geomParams._c1 = sc, !.geomParams._c2 = sc] :
        f \in { Form("TC23", c, x2, e0, 0, S2, 20, 1, Tough, 0, undefined) :
                  c \in {0, 1000000, 3000000, 5000000, 7000000},
                  x2 \in {undefined, 2000000}, e0 \in {0, 2000000}, S2 \in {0, 20} },
        W \in {16000000, 20000000}, sc \in {undefined, 3000000} }

\* the record of one call and of the value it returned
GeomCall(fn, side, value) == [fn |-> fn, side |-> side, value |-> value]

\* the sides a variant is called with
SidesOf(geometryId) == IF isDualCrack(geometryId) THEN {"left", "right"} ELSE {"none"}

\* a call that reads its arguments and writes nothing but its return value
Returns(call) ==
    /\ pc = "geometry"
    /\ Len(calls) < MaxCalls
    /\ calls' = Append(calls, call)
    /\ UNCHANGED <<pc, caller, config, Kc, a, c1, c2, aEdge, N, step, step_start,
                   transitionCycle, failureMode, failureSide, data, logEntries, result>>

\* a getBeta that stores the tip length it was called with in params
call_getBeta_stash ==
    /\ pc = "geometry"
    /\ Len(calls) < MaxCalls
    /\ \E side \in SidesOf(config.geometryId) :
          /\ calls' = Append(calls,
                 GeomCall("getBeta", side,
                          IF config.geometryId = "TC01"
                          THEN TC01_getBeta(config.a0, config.geomParams)
                          ELSE IF config.geometryId = "TC05"
                          THEN TC05_getBeta(config.a0, config.geomParams)
                          ELSE TC23_getBeta(config.a0, config.geomParams, side)))
          /\ config' = IF config.geometryId = "TC23"
                       THEN [config EXCEPT !.geomParams._c1 = config.a0 + 1000000]
                       ELSE config
    /\ UNCHANGED <<pc, caller, Kc, a, c1, c2, aEdge, N, step, step_start,
                   transitionCycle, failureMode, failureSide, data, logEntries, result>>

\* geom.getBeta(c, params, side)
call_getBeta ==
    \E side \in SidesOf(config.geometryId) :
       Returns(GeomCall("getBeta", side,
                        IF config.geometryId = "TC01"
                        THEN TC01_getBeta(config.a0, config.geomParams)
                        ELSE IF config.geometryId = "TC05"
                        THEN TC05_getBeta(config.a0, config.geomParams)
                        ELSE TC23_getBeta(config.a0, config.geomParams, side)))

\* geom.getK(c, sigma, params, side)
call_getK ==
    \E side \in SidesOf(config.geometryId) :
       Returns(GeomCall("getK", side,
                        IF config.geometryId = "TC01"
                        THEN TC01_getK(config.a0, config.sigmaMax, config.geomParams)
                        ELSE IF config.geometryId = "TC05"
                        THEN TC05_getK(config.a0, config.sigmaMax, config.geomParams)
                        ELSE TC23_getK(config.a0, config.sigmaMax,
                                       config.geomParams, side)))

\* geom.getK_total(c, S0, S3, params, side), of TC23
call_getK_total ==
    /\ config.geometryId = "TC23"
    /\ \E side \in {"left", "right"} :
          Returns(GeomCall("getK_total", side,
                           TC23_getK_total(config.a0, config.sigmaMax,
                                           config.geomParams.S3, config.geomParams, side)))

\* geom.getBetaEdge(aEdge, params), of TC23
call_getBetaEdge ==
    /\ config.geometryId = "TC23"
    /\ Returns(GeomCall("getBetaEdge", "none",
                        getBetaEdge(config.a0, config.geomParams)))

\* geom.getKEdge(aEdge, sigma, params), of TC23
call_getKEdge ==
    /\ config.geometryId = "TC23"
    /\ Returns(GeomCall("getKEdge", "none",
                        getKEdge(config.a0, config.sigmaMax, config.geomParams)))

GeomInit ==
    /\ pc = "geometry"
    /\ caller = "none"
    /\ config \in GeomInputs
    /\ Kc = 0
    /\ a = 0
    /\ c1 = 0
    /\ c2 = 0
    /\ aEdge = 0
    /\ N = 0
    /\ step = 0
    /\ step_start = 0
    /\ transitionCycle = undefined
    /\ failureMode = "none"
    /\ failureSide = "null"
    /\ data = NoData
    /\ logEntries = <<>>
    /\ calls = <<>>
    /\ result = NoResult

GeomNext ==
    \/ call_getBeta
    \/ call_getK
    \/ call_getK_total
    \/ call_getBetaEdge
    \/ call_getKEdge

GeomSpec == GeomInit /\ [][GeomNext]_vars

-----------------------------------------------------------------------------
(* NasgroEquation called on its own.  config holds the arguments that stay   *)
(* fixed over the calls (R, material, Kc), calls the calls made so far with   *)
(* the Kmax of each one and the value it returned.                            *)

\* materials of the calls: the three of the runs, plane strain at the flow stress
\* (alpha = 1, Smax/S0 = 1: A0 = 0), and one with its own threshold parameters
RateMaterials ==
    {Tough, Brittle, Sensitive,
     [Tough EXCEPT !.alpha = 10, !.Smax_S0 = 10],
     [Tough EXCEPT !.alpha = 30, !.Smax_S0 = 5, !.alpha_th = 10, !.Smax_S0_th = 3]}

\* the arguments that stay fixed: R from -2 to 1.2 in tenths, Kc in K units
RateInputs ==
    { [geometryId |-> "nasgro", R |-> R10, material |-> mat, Kc |-> kc] :
        R10 \in {0 - 20, 0 - 10, 0 - 3, 0, 1, 5, 7, 9, 10, 12},
        mat \in RateMaterials, kc \in {600000, 2000000} }

\* the Kmax of the calls: negative, zero, around the threshold, up to and past Kc
KmaxGrid ==
    {0 - 100000, 0, 100000, 160000, 200000, 400000, 599500, 1000000,
     1998000, 1999500, 2000000, 2500000}

\* NasgroEquation.growthRate(Kmax, R, mat, Kc)
call_growthRate ==
    /\ pc = "nasgro"
    /\ Len(calls) < MaxCalls
    /\ \E Kmax \in KmaxGrid :
          calls' = Append(calls,
                     [fn |-> "growthRate", Kmax |-> Kmax,
                      value |-> growthRate(Kmax, config.R, config.material, config.Kc)])
    /\ UNCHANGED <<pc, caller, config, Kc, a, c1, c2, aEdge, N, step, step_start,
                   transitionCycle, failureMode, failureSide, data, logEntries, result>>

\* NasgroEquation.newmanClosure(R, alpha, Smax_S0)
call_newmanClosure ==
    /\ pc = "nasgro"
    /\ Len(calls) < MaxCalls
    /\ calls' = Append(calls,
                  [fn |-> "newmanClosure",
                   value |-> newmanClosure(config.R, config.material.alpha,
                                           config.material.Smax_S0)])
    /\ UNCHANGED <<pc, caller, config, Kc, a, c1, c2, aEdge, N, step, step_start,
                   transitionCycle, failureMode, failureSide, data, logEntries, result>>

\* NasgroEquation.thresholdDK(R, mat)
call_thresholdDK ==
    /\ pc = "nasgro"
    /\ Len(calls) < MaxCalls
    /\ calls' = Append(calls,
                  [fn |-> "thresholdDK", value |-> thresholdDK(config.R, config.material)])
    /\ UNCHANGED <<pc, caller, config, Kc, a, c1, c2, aEdge, N, step, step_start,
                   transitionCycle, failureMode, failureSide, data, logEntries, result>>

RateInit ==
    /\ pc = "nasgro"
    /\ caller = "none"
    /\ config \in RateInputs
    /\ Kc = 0
    /\ a = 0
    /\ c1 = 0
    /\ c2 = 0
    /\ aEdge = 0
    /\ N = 0
    /\ step = 0
    /\ step_start = 0
    /\ transitionCycle = undefined
    /\ failureMode = "none"
    /\ failureSide = "null"
    /\ data = NoData
    /\ logEntries = <<>>
    /\ calls = <<>>
    /\ result = NoResult

RateNext ==
    \/ call_growthRate
    \/ call_newmanClosure
    \/ call_thresholdDK

RateSpec == RateInit /\ [][RateNext]_vars

-----------------------------------------------------------------------------
(* Properties *)

\* the run is inside one of the three loops
InLoop == pc \in {"single", "dual", "edge"}

\* the run has returned a result
Returned == pc = "done"

\* the transition of _runDual into _runEdgeCrackPhase
LinkUpStep == pc = "dual" /\ pc' = "edge"

\* C1: the step counter only grows by one, inside a loop and while it is below
\* maxSteps; link-up hands it to the edge loop unchanged; so the counter never
\* exceeds maxSteps and the returned totalSteps is the counter, at most maxSteps.
C1_StepsBounded ==
    /\ [](step <= maxStepsOf(config))
    /\ [][/\ step' # step => InLoop /\ step < maxStepsOf(config) /\ step' = step + 1
          /\ LinkUpStep => step' = step /\ step_start' = step
          /\ pc' = "done" /\ pc # "done" =>
                /\ result'.totalSteps = step'
                /\ result'.totalSteps <= maxStepsOf(config')]_vars

\* a run that linked up after some steps and whose edge loop stopped at maxSteps
C1_Witness ==
    /\ Returned
    /\ transitionCycle # undefined
    /\ 0 < step_start /\ step_start < result.totalSteps
    /\ result.totalSteps = maxStepsOf(config)
    /\ result.failureMode = MaxStepsReached

\* a dual step is about to run its loop body
DualStepReady == pc = "dual" /\ failureMode = Running /\ step < maxStepsOf(config)

\* the right-tip conditions (a), (b), (c) as a dual step finds them: the check is
\* reached, no earlier check of the step having left the loop
RightTipFound(c1Max, c2Max, k) ==
    /\ c1 < c1Max
    /\ \/ c2 >= c2Max
       \/ /\ k.K1 >= 0
          /\ \/ k.K2 < 0
             \/ k.K1 < Kc /\ k.K2 >= Kc

LinkedUpByK2(c2Max, k) ==
    c2 < c2Max /\ k.K1 >= 0 /\ k.K1 < Kc /\ k.K2 >= Kc

C2_WitnessLimit ==
    /\ pc = "edge" /\ step = step_start /\ step > 0
    /\ c2 >= TC23_getMaxCrack(config.geomParams, "right")

\* link-up by an invalid right-tip K
C2_WitnessInvalid ==
    /\ pc = "edge" /\ step = step_start
    /\ c2 < TC23_getMaxCrack(config.geomParams, "right")
    /\ DualK(config, c1, c2).K2 < 0

\* the class of a failure mode among the four termination criteria
Criterion(mode) ==
    IF mode \in {GeometryLimitAW, GeometryLimit, GeometryLimitLeft,
                 GeometryLimitSentAW, GeometryLimitSent} THEN "geometry"
    ELSE IF mode \in {FractureSingle, FractureLeft, FractureSent} THEN "fracture"
    ELSE IF mode \in {NetSectionYieldSingle, NetSectionYieldDual, NetSectionYieldSent}
    THEN "yield"
    ELSE IF mode \in {BelowThreshold, BelowThresholdSent} THEN "threshold"
    ELSE "none"

\* the earliest criterion that holds, in the order geometry, fracture, yield, threshold
Earliest(geometry, fracture, yield, threshold) ==
    IF geometry THEN "geometry"
    ELSE IF fracture THEN "fracture"
    ELSE IF yield THEN "yield"
    ELSE IF threshold THEN "threshold"
    ELSE "none"

\* the criteria of a step of each loop, on the values the loop computes
EarliestSingle(p, mat, K) ==
    Earliest(a >= TC01_getMaxCrack(p) \/ K < 0,
             K >= Kc,
             SingleYields(TC01_getNetSectionStress(a, config.sigmaMax, p), mat),
             growthRate(K, config.R, mat, Kc).dadN <= 0)

EarliestDual(p0, mat, k) ==
    Earliest(c1 >= TC23_getMaxCrack(config.geomParams, "left") \/ k.K1 < 0,
             k.K1 >= Kc,
             \/ QuotGeqHalf(TC23_getNetSectionStress(c1, S_gross(config), p0, "left"),
                            sigma_flow2(mat))
             \/ QuotGeqHalf(TC23_getNetSectionStress(c2, S_gross(config), p0, "right"),
                            sigma_flow2(mat)),
             /\ growthRate(k.K1, config.R, mat, Kc).dadN <= 0
             /\ growthRate(k.K2, config.R, mat, Kc).dadN <= 0)

EarliestEdge(p, mat, K) ==
    Earliest(aEdge >= getMaxCrackEdge(p) \/ K < 0,
             K >= Kc,
             QuotGeqHalf(getNetSectionStressEdge(aEdge, S_gross(config), p),
                         sigma_flow2(mat)),
             growthRate(K, config.R, mat, Kc).dadN <= 0)

EarliestHere ==
    IF pc = "single"
    THEN EarliestSingle(config.geomParams, config.material,
                        TC01_getK(a, config.sigmaMax, config.geomParams))
    ELSE IF pc = "dual"
    THEN EarliestDual(WithScratch(config.geomParams, c1, c2), config.material,
                      DualK(config, c1, c2))
    ELSE EarliestEdge(config.geomParams, config.material, EdgeK(config, aEdge))

\* a step of a loop that stays in its loop: every step but a link-up
LoopStep ==
    /\ InLoop /\ failureMode = Running /\ step < maxStepsOf(config)
    /\ pc' = pc

\* C3: a step of a loop reports the earliest criterion that holds, in the order
\* geometry limit, fracture, net-section yield, threshold arrest, and it grows the
\* crack only when none of them holds.
C3_EarliestCriterion ==
    [][LoopStep =>
          /\ Criterion(failureMode') = EarliestHere
          /\ step' = step + 1 <=> EarliestHere = "none"]_vars

\* a step of the edge loop reported fracture while net-section yield held as well
C3_Witness ==
    /\ pc = "edge" /\ failureMode = FractureSent
    /\ QuotGeqHalf(getNetSectionStressEdge(aEdge, S_gross(config), config.geomParams),
                   sigma_flow2(config.material))

\* the same in the single loop
C3_WitnessSingle ==
    /\ pc = "single" /\ failureMode = FractureSingle
    /\ SingleYields(TC01_getNetSectionStress(a, config.sigmaMax, config.geomParams),
                    config.material)

\* a TC23 run with S2 = S3 = 0, unequal initial cracks and valid inputs
UnequalDualRun ==
    /\ pc \in {"dual", "edge", "done"}
    /\ config.geometryId = "TC23"
    /\ config.geomParams.S2 = 0 /\ config.geomParams.S3 = 0
    /\ config.a0 # config.a0_2 /\ config.a0_2 # undefined
    /\ config.a0 > 0 /\ config.a0 < TC23_getMaxCrack(config.geomParams, "left")
    /\ config.a0_2 > 0 /\ config.a0_2 < TC23_getMaxCrack(config.geomParams, "right")
    /\ config.sigmaMax > 0 /\ config.R < 10

\* the number of LINK-UP entries of a log
LinkUps(log) == Cardinality({i \in 1..Len(log) : log[i].tag = "LINK-UP"})

\* C4 as stated: every such run that returns, a cap not being what ended it, has
\* linked up, exactly once.
C4_AlwaysLinksUp ==
    Returned /\ UnequalDualRun
    /\ result.failureMode \notin {MaxStepsReached, MaxCyclesReached}
    => transitionCycle # undefined /\ LinkUps(logEntries) = 1

\* C4: such a run links up at most once; when it does, the cycle count of the
\* transition is the N of the dual loop, below maxCycles, and the edge loop
\* starts with a_edge = c1 + D + (W/2 - e0 - D/2) for the c1 of the link-up.
C4_LinkUpAtMostOnce ==
    /\ [](UnequalDualRun => LinkUps(logEntries) <= 1)
    /\ [](UnequalDualRun => (transitionCycle # undefined <=> LinkUps(logEntries) = 1))
    /\ [][UnequalDualRun /\ LinkUpStep =>
             /\ transitionCycle = undefined
             /\ transitionCycle' = N /\ N < maxCyclesOf(config)
             /\ c1' = c1
             /\ aEdge' = c1 + config.geomParams.D
                         + (config.geomParams.W \div 2 - config.geomParams.e0
                            - config.geomParams.D \div 2)]_vars
    /\ [][transitionCycle # undefined =>
             transitionCycle' = transitionCycle /\ pc' # "dual"]_vars

\* the edge loop has just been entered, after some growth of both cracks
C4_Witness ==
    /\ UnequalDualRun /\ caller = "runAnalysis"
    /\ pc = "edge" /\ step = step_start /\ step > 0
    /\ transitionCycle = N /\ N > 0
    /\ aEdge = c1 + 12000000 - config.geomParams.e0

\* the terminal failure modes the engine defines
TerminalModes ==
    {GeometryLimitAW, GeometryLimit, FractureSingle, NetSectionYieldSingle,
     BelowThreshold, MaxCyclesReached, MaxStepsReached,
     GeometryLimitLeft, FractureLeft, NetSectionYieldDual,
     GeometryLimitSentAW, GeometryLimitSent, FractureSent, NetSectionYieldSent,
     BelowThresholdSent}

\* C5: the Result of a completed run carries a terminal failure mode, never the
\* placeholder 'Running', in whichever loop the run ended.
C5_TerminalMode ==
    Returned =>
        /\ result.failureMode \in TerminalModes
        /\ result.failureMode # Running
        /\ failureMode = result.failureMode

\* a single-crack run whose loop ended on the step cap with no criterion fired,
\* the placeholder still in place when the loop was left
C5_Witness ==
    /\ Returned /\ config.geometryId = "TC01"
    /\ result.totalSteps = maxStepsOf(config)
    /\ result.failureMode = MaxStepsReached

\* the same for a run that ended in the edge loop
C5_WitnessEdge ==
    /\ Returned /\ transitionCycle # undefined
    /\ result.failureMode = MaxStepsReached

CapModes == {MaxStepsReached, MaxCyclesReached}

\* the step that leaves a loop for the code after it
ReturnStep == InLoop /\ pc' = "done"

\* C6: 'Max Steps Reached' is returned exactly when the loop was left on
\* step >= maxSteps with no mode set; 'Max Cycles Reached' is set exactly by a
\* growth step that leaves N >= maxCycles; a mode once set is never replaced; a
\* run that returns a physical mode has totalCycles < maxCycles and
\* totalSteps <= maxSteps.
C6_CapsDistinct ==
    /\ [][ReturnStep =>
             /\ result'.failureMode = MaxStepsReached
                    <=> failureMode = Running /\ step >= maxStepsOf(config)
             /\ failureMode # Running => result'.failureMode = failureMode]_vars
    /\ [][InLoop /\ failureMode = Running /\ ~ReturnStep =>
             (failureMode' = MaxCyclesReached
                  <=> step' = step + 1 /\ N' >= maxCyclesOf(config))]_vars
    /\ [][failureMode # Running /\ InLoop => failureMode' = failureMode]_vars
    /\ [](Returned /\ result.failureMode \notin CapModes =>
             /\ result.totalCycles < maxCyclesOf(config)
             /\ result.totalSteps <= maxStepsOf(config))
    /\ [](Returned /\ result.failureMode = MaxCyclesReached =>
             result.totalCycles >= maxCyclesOf(config))

\* the last step allowed by maxSteps also took N to maxCycles: the run reports
\* the cycle cap, which fired in the loop, and not the step cap
C6_Witness ==
    /\ Returned
    /\ result.failureMode = MaxCyclesReached
    /\ result.totalSteps = maxStepsOf(config)
    /\ result.totalCycles >= maxCyclesOf(config)

\* a physical mode found by the step at which the step cap would have applied next
C6_WitnessPhysical ==
    /\ Returned
    /\ result.failureMode \notin CapModes
    /\ result.totalSteps = maxStepsOf(config) - 1
    /\ result.totalSteps > 0

\* the inputs the specification calls invalid
InvalidInput(cfg) ==
    \/ cfg.sigmaMax <= 0
    \/ cfg.R >= 10
    \/ cfg.geomParams.W <= 0 \/ cfg.geomParams.t <= 0 \/ cfg.geomParams.D <= 0
    \/ cfg.geomParams.a0 <= 0
    \/ IF isDualCrack(cfg.geometryId)
       THEN \/ cfg.geomParams.a0 >= TC23_getMaxCrack(cfg.geomParams, "left")
            \/ cfg.geomParams.a0_2 >= TC23_getMaxCrack(cfg.geomParams, "right")
       ELSE cfg.geomParams.a0 >= TC01_getMaxCrack(cfg.geomParams)

\* C7: a run of the page with invalid inputs never enters a loop: no step is
\* taken, no link-up happens and no Result is produced.
C7_InvalidRejected ==
    caller = "runAnalysis" /\ InvalidInput(config) =>
        /\ pc = "rejected"
        /\ step = 0
        /\ transitionCycle = undefined
        /\ result = NoResult

\* as far as the validation of runAnalysis goes, the claim holds: a run it
\* rejects takes no step and produces no Result
C7_RejectedTakesNoStep ==
    caller = "runAnalysis" /\ Rejected(config) =>
        pc = "rejected" /\ step = 0 /\ result = NoResult /\ failureMode = "none"

\* a run of the page with a right crack at its bound that linked up, took steps
\* in the edge loop and returned a Result
C7_InvalidRan ==
    /\ caller = "runAnalysis" /\ InvalidInput(config)
    /\ Returned /\ transitionCycle # undefined /\ result.totalSteps > 0

NetYieldModes == {NetSectionYieldSingle, NetSectionYieldDual, NetSectionYieldSent}

\* the net-section stress of the single loop is at least limit2 / 2
NetStressSingle(limit2) ==
    QuotGeqHalf(TC01_getNetSectionStress(a, config.sigmaMax, config.geomParams), limit2)

\* the net-section stress of either ligament of the dual loop is at least limit2 / 2
NetStressDual(p0, limit2) ==
    \/ QuotGeqHalf(TC23_getNetSectionStress(c1, S_gross(config), p0, "left"), limit2)
    \/ QuotGeqHalf(TC23_getNetSectionStress(c2, S_gross(config), p0, "right"), limit2)

\* the net-section stress of the edge loop is at least limit2 / 2
NetStressEdge(limit2) ==
    QuotGeqHalf(getNetSectionStressEdge(aEdge, S_gross(config), config.geomParams), limit2)

\* the net-section stress of the active loop is at least limit2 / 2
NetStressHere(limit2) ==
    IF pc = "single" THEN NetStressSingle(limit2)
    ELSE IF pc = "dual" THEN NetStressDual(WithScratch(config.geomParams, c1, c2), limit2)
    ELSE NetStressEdge(limit2)

\* the step reaches its net-section check: no geometry limit, no fracture
YieldCheckReached(geometry, fracture) ==
    Earliest(geometry, fracture, FALSE, FALSE) = "none"

YieldCheckReachedHere ==
    IF pc = "single"
    THEN YieldCheckReached(a >= TC01_getMaxCrack(config.geomParams)
                              \/ TC01_getK(a, config.sigmaMax, config.geomParams) < 0,
                           TC01_getK(a, config.sigmaMax, config.geomParams) >= Kc)
    ELSE IF pc = "dual"
    THEN YieldCheckReached(c1 >= TC23_getMaxCrack(config.geomParams, "left")
                              \/ DualK(config, c1, c2).K1 < 0,
                           DualK(config, c1, c2).K1 >= Kc)
    ELSE YieldCheckReached(aEdge >= getMaxCrackEdge(config.geomParams)
                              \/ EdgeK(config, aEdge) < 0,
                           EdgeK(config, aEdge) >= Kc)

C8_WitnessDual == pc = "dual" /\ failureMode = NetSectionYieldDual

C8_WitnessEdge == pc = "edge" /\ failureMode = NetSectionYieldSent

\* the last sample of a series
Latest(series) == series[Len(series)]

\* a growth step of the active loop
GrowthStep == LoopStep /\ step' = step + 1

\* one Irwin iteration on K, written out for each loop: K at the effective length
\* c + r_y(K), kept when it is positive
OnceSingle(K) ==
    Accept(TC01_getK(a + plasticZone(K, config.material), config.sigmaMax,
                     config.geomParams), K)

OnceEdge(K) ==
    Accept(calcKEdge(config, aEdge + plasticZone(K, config.material)), K)

EffectiveParams(k) ==
    WithScratch(config.geomParams, c1 + plasticZone(k.K1, config.material),
                                   c2 + plasticZone(k.K2, config.material))

OnceDual(k) ==
    [K1 |-> Accept(calcK(config, EffectiveParams(k),
                         c1 + plasticZone(k.K1, config.material), "left"), k.K1),
     K2 |-> Accept(calcK(config, EffectiveParams(k),
                         c2 + plasticZone(k.K2, config.material), "right"), k.K2)]

\* the LEFM K of each loop and the K after two Irwin iterations
PlainSingle == TC01_getK(a, config.sigmaMax, config.geomParams)

TwiceSingle == OnceSingle(OnceSingle(PlainSingle))

TwiceEdge == OnceEdge(OnceEdge(calcKEdge(config, aEdge)))

PlainDual ==
    [K1 |-> calcK(config, WithScratch(config.geomParams, c1, c2), c1, "left"),
     K2 |-> calcK(config, WithScratch(config.geomParams, c1, c2), c2, "right")]

TwiceDual == OnceDual(OnceDual(PlainDual))

\* the step tests K for fracture and computes da/dN from it
UsesSingle(K) ==
    /\ failureMode' = FractureSingle
           <=> a < TC01_getMaxCrack(config.geomParams) /\ K >= 0 /\ K >= Kc
    /\ step' = step + 1 =>
           /\ Latest(data'.Kmax) = K
           /\ Latest(data'.dadN) = growthRate(K, config.R, config.material, Kc).dadN

UsesEdge(K) ==
    /\ failureMode' = FractureSent
           <=> aEdge < getMaxCrackEdge(config.geomParams) /\ K >= 0 /\ K >= Kc
    /\ step' = step + 1 =>
           /\ Latest(data'.Kmax) = K
           /\ Latest(data'.dadN) = growthRate(K, config.R, config.material, Kc).dadN

UsesDual(k) ==
    /\ failureMode' = FractureLeft
           <=> /\ c1 < TC23_getMaxCrack(config.geomParams, "left")
               /\ k.K1 >= 0 /\ k.K1 >= Kc
    /\ step' = step + 1 =>
           /\ Latest(data'.Kmax1) = k.K1
           /\ Latest(data'.Kmax2) = k.K2
           /\ Latest(data'.dadN) =
                  Max(growthRate(k.K1, config.R, config.material, Kc).dadN,
                      growthRate(k.K2, config.R, config.material, Kc).dadN)

\* C9 as stated: every step of every loop, the single loop included, tests the K
\* of two Irwin iterations for fracture and computes da/dN from it.
C9_CorrectedEverywhere ==
    [][LoopStep =>
          IF pc = "single" THEN UsesSingle(TwiceSingle)
          ELSE IF pc = "dual" THEN UsesDual(TwiceDual)
          ELSE UsesEdge(TwiceEdge)]_vars

\* C9: every step of the dual and of the edge loop tests the K of two Irwin
\* iterations for fracture and computes da/dN from it; a step of the single loop
\* uses the LEFM K of the physical crack length, with no correction.
C9_CorrectedDualAndEdge ==
    [][LoopStep =>
          IF pc = "single" THEN UsesSingle(PlainSingle)
          ELSE IF pc = "dual" THEN UsesDual(TwiceDual)
          ELSE UsesEdge(TwiceEdge)]_vars

\* an edge step grew the crack on a K that the correction had raised
C9_Witness ==
    /\ pc = "edge" /\ step > step_start /\ Len(data.Kmax) >= 2
    /\ Latest(data.Kmax) >
           calcKEdge(config, data.a[Len(data.a) - 1])

\* a single step grew the crack on the LEFM K, which the correction would have raised
C9_WitnessSingle ==
    /\ pc = "single" /\ step > 0
    /\ Latest(data.Kmax) =
           TC01_getK(data.a[Len(data.a) - 1], config.sigmaMax, config.geomParams)
    /\ Latest(data.Kmax) <
           TC01_getK(data.a[Len(data.a) - 1] + plasticZone(Latest(data.Kmax), config.material),
                     config.sigmaMax, config.geomParams)

\* a length x that a step took to xNext stays at or below its limit
NoOvershoot(x, xNext, limit) == xNext <= limit

\* a length x that a step took to xNext: at or below the limit when the distance
\* to the limit was at least the floor, less than the floor beyond it otherwise
WithinFloor(x, xNext, limit) ==
    /\ x < limit
    /\ limit - x >= StepFloor => xNext <= limit
    /\ xNext < limit + StepFloor

\* C10 as stated: after a growth step no active crack length is above its limit.
C10_NeverOvershoots ==
    [][GrowthStep =>
          IF pc = "single"
          THEN NoOvershoot(a, a', TC01_getMaxCrack(config.geomParams))
          ELSE IF pc = "dual"
          THEN /\ NoOvershoot(c1, c1', TC23_getMaxCrack(config.geomParams, "left"))
               /\ NoOvershoot(c2, c2', TC23_getMaxCrack(config.geomParams, "right"))
          ELSE NoOvershoot(aEdge, aEdge', getMaxCrackEdge(config.geomParams))]_vars

\* C10: after a growth step each active crack length is at or below its limit
\* when its distance to the limit before the step was at least the floor of the
\* step, and is above the limit by less than the floor otherwise.
C10_OvershootBelowFloor ==
    [][GrowthStep =>
          IF pc = "single"
          THEN WithinFloor(a, a', TC01_getMaxCrack(config.geomParams))
          ELSE IF pc = "dual"
          THEN /\ WithinFloor(c1, c1', TC23_getMaxCrack(config.geomParams, "left"))
               /\ WithinFloor(c2, c2', TC23_getMaxCrack(config.geomParams, "right"))
          ELSE WithinFloor(aEdge, aEdge', getMaxCrackEdge(config.geomParams))]_vars

\* a dual step that started less than the floor from the right limit went past it
C10_Witness ==
    /\ pc = "dual" /\ step > 0
    /\ c2 > TC23_getMaxCrack(config.geomParams, "right")
    /\ data.c2[Len(data.c2) - 1] < TC23_getMaxCrack(config.geomParams, "right")

\* the same in the single loop
C10_WitnessSingle ==
    pc = "single" /\ step > 0 /\ a > TC01_getMaxCrack(config.geomParams)

\* a step that the clip took exactly to the limit
C10_WitnessClipped ==
    \/ pc = "single" /\ step > 0 /\ a = TC01_getMaxCrack(config.geomParams)
    \/ pc = "dual" /\ step > 0 /\ c2 = TC23_getMaxCrack(config.geomParams, "right")
    \/ pc = "edge" /\ step > step_start /\ aEdge = getMaxCrackEdge(config.geomParams)

\* the tier of the fracture margin m = 1 - Kmax/Kc: 0.0005, 0.001, 0.002, 0.005 in
TierOf(Kmax, KcArg) ==
    IF 100 * (KcArg - Kmax) < 5 * KcArg THEN StepTier05
    ELSE IF 100 * (KcArg - Kmax) < 15 * KcArg THEN StepTier15
    ELSE IF 100 * (KcArg - Kmax) < 30 * KcArg THEN StepTier30
    ELSE StepTierFar

\* the increment delta of a step with tier value tier: never above the tier, and
\* below it only when the tier would carry a tip of length x past its limit
TierUnlessPast(delta, tier, x, limit) ==
    /\ delta <= tier
    /\ delta < tier => x + tier > limit

\* the same for the two tips of the dual loop, each with its own limit
TierUnlessPastOwn(delta, tier, c1Max, c2Max) ==
    /\ delta <= tier
    /\ delta < tier => c1 + tier > c1Max \/ c2 + tier > c2Max

\* C11: the increment of a growth step is the tier value of the fracture margin,
\* and it is below the tier value only when the tier value would carry a crack tip
\* past its own geometry limit; in the dual loop, with both tips farther than the
\* tier value from c1Max and c2Max, the step is the tier value.
C11_TierUnlessOwnLimit ==
    [][GrowthStep =>
          IF pc = "single"
          THEN TierUnlessPast(a' - a, TierOf(PlainSingle, Kc), a,
                              TC01_getMaxCrack(config.geomParams))
          ELSE IF pc = "dual"
          THEN TierUnlessPastOwn(Max(c1' - c1, c2' - c2),
                                 TierOf(Max(TwiceDual.K1, TwiceDual.K2), Kc),
                                 TC23_getMaxCrack(config.geomParams, "left"),
                                 TC23_getMaxCrack(config.geomParams, "right"))
          ELSE TierUnlessPast(aEdge' - aEdge, TierOf(TwiceEdge, Kc), aEdge,
                              getMaxCrackEdge(config.geomParams))]_vars

\* a dual step with both tips farther than the largest tier value from their own
\* limits took less than the smallest tier value
C11_ShortStep ==
    /\ pc = "dual" /\ step > 0 /\ Len(data.c1) >= 2
    /\ data.c1[Len(data.c1) - 1] + StepTierFar
           <= TC23_getMaxCrack(config.geomParams, "left")
    /\ data.c2[Len(data.c2) - 1] + StepTierFar
           <= TC23_getMaxCrack(config.geomParams, "right")
    /\ c1 - data.c1[Len(data.c1) - 1] < StepTier05
    /\ c2 - data.c2[Len(data.c2) - 1] < StepTier05

\* the increment of a dual step: _adaptiveStep on the larger K, the longer crack
\* and the smaller limit
DualDelta(k) ==
    adaptiveStep(Max(k.K1, k.K2), Kc, Max(c1, c2),
                 Min(TC23_getMaxCrack(config.geomParams, "left"),
                     TC23_getMaxCrack(config.geomParams, "right")))

\* the advance of a tip with rate r in a step of increment da set by the rate rMax
SharedAdvance(r, rMax, da) ==
    IF r = rMax THEN da ELSE (da * PerMille(r, rMax)) \div 1000

\* a growth step of the dual loop with the rates r1, r2 and the increment da
SharedIncrement(r1, r2, da) ==
    /\ Max(r1, r2) > 0
    /\ N' - N = CeilDiv(da, Max(r1, r2))
    /\ N' > N
    /\ c1' - c1 = SharedAdvance(Max(r1, 0), Max(r1, r2), da)
    /\ c2' - c2 = SharedAdvance(Max(r2, 0), Max(r1, r2), da)
    /\ c1' - c1 <= da /\ c2' - c2 <= da
    /\ Max(c1' - c1, c2' - c2) = da
    /\ Latest(data'.dadN) = Max(r1, r2)

RatesReached(p0, k) ==
    /\ DualStepReady
    /\ c1 < TC23_getMaxCrack(config.geomParams, "left")
    /\ c2 < TC23_getMaxCrack(config.geomParams, "right")
    /\ 0 <= k.K1 /\ k.K1 < Kc /\ 0 <= k.K2 /\ k.K2 < Kc
    /\ ~QuotGeqHalf(TC23_getNetSectionStress(c1, S_gross(config), p0, "left"),
                    sigma_flow2(config.material))
    /\ ~QuotGeqHalf(TC23_getNetSectionStress(c2, S_gross(config), p0, "right"),
                    sigma_flow2(config.material))

\* what the step does with the rates r1, r2 of the two tips
ArrestOfAll(r1, r2) ==
    /\ failureMode' = BelowThreshold <=> r1 <= 0 /\ r2 <= 0
    /\ r1 <= 0 /\ r2 <= 0 => step' = step /\ c1' = c1 /\ c2' = c2
    /\ r1 <= 0 /\ r2 > 0 => step' = step + 1 /\ c1' = c1 /\ c2' > c2
    /\ r1 > 0 /\ r2 <= 0 => step' = step + 1 /\ c1' > c1 /\ c2' = c2
    /\ r1 > 0 /\ r2 > 0 => step' = step + 1 /\ c1' >= c1 /\ c2' >= c2 /\ c1' + c2' > c1 + c2

\* C13: the dual loop ends with 'Below Threshold (No Growth)' only when da/dN <= 0
\* at both tips; with da/dN <= 0 at exactly one tip the run continues, that tip
\* keeps its crack length and the other tip advances.
C13_ArrestNeedsBothTips ==
    /\ [][pc = "dual" /\ failureMode' = BelowThreshold /\ failureMode = Running =>
             RatesReached(WithScratch(config.geomParams, c1, c2), TwiceDual)]_vars
    /\ [][RatesReached(WithScratch(config.geomParams, c1, c2), TwiceDual) =>
             \E k \in {TwiceDual} :
                ArrestOfAll(growthRate(k.K1, config.R, config.material, Kc).dadN,
                            growthRate(k.K2, config.R, config.material, Kc).dadN)]_vars

\* a dual step left one tip where it was and advanced the other
C13_Witness ==
    /\ pc = "dual" /\ step > 0 /\ Len(data.c1) >= 2
    /\ \/ c1 = data.c1[Len(data.c1) - 1] /\ c2 > data.c2[Len(data.c2) - 1]
       \/ c2 = data.c2[Len(data.c2) - 1] /\ c1 > data.c1[Len(data.c1) - 1]

\* the dual loop stopped below threshold
C13_WitnessArrest == pc = "dual" /\ failureMode = BelowThreshold

\* the series of the dense data of a single-crack run and of a dual-crack run
SingleSeries == {"N", "a", "twoA", "Kmax", "dK", "dadN", "beta"}

DualSeries == {"N", "c1", "c2", "a", "twoA", "Kmax", "Kmax1", "Kmax2", "dK", "dadN",
               "beta1", "beta2"}

\* every series of d is there and holds n + 1 samples
Dense(d, series, n) ==
    /\ DOMAIN d = series
    /\ \A f \in series : Len(d[f]) = n + 1

\* C14: one dense sample per integration step: in every loop each series holds
\* step + 1 samples, and at return each series of result.data holds
\* totalSteps + 1 samples, in single runs, dual runs and runs that linked up.
C14_DenseSamplePerStep ==
    /\ pc = "single" => Dense(data, SingleSeries, step)
    /\ pc \in {"dual", "edge"} => Dense(data, DualSeries, step)
    /\ Returned =>
          /\ result.totalSteps = step
          /\ Dense(result.data, IF result.isDual THEN DualSeries ELSE SingleSeries,
                   result.totalSteps)

\* a returned run that took steps in the dual loop and in the edge loop
C14_Witness ==
    /\ Returned /\ transitionCycle # undefined
    /\ 0 < step_start /\ step_start < result.totalSteps
    /\ Len(result.data.Kmax2) = result.totalSteps + 1

\* returned runs of the single loop and of the dual loop alone, after some steps
C14_WitnessSingle == Returned /\ ~result.isDual /\ result.totalSteps > 1

C14_WitnessDual ==
    Returned /\ result.isDual /\ transitionCycle = undefined /\ result.totalSteps > 1

\* the index of the next step within its phase
PhaseStep == IF pc = "edge" THEN step - step_start ELSE step

\* the number of END entries of a log
Ends(log) == Cardinality({i \in 1..Len(log) : log[i].tag = "END"})

\* the result reports a dual-to-edge transition
ReportsTransition(res) == "hasTransition" \in DOMAIN res /\ res.hasTransition

\* C15: a growth step at phase-local index 0, 50, 100, ... appends one entry to
\* the log (the state before the step) and any other growth step appends none; a
\* dual-to-edge transition appends one entry tagged LINK-UP; the return appends
\* the entry tagged END, the last and the only END entry of the returned log,
\* which holds one LINK-UP entry when the result reports a transition, else none.
C15_SparseLog ==
    /\ [][GrowthStep =>
             IF PhaseStep % 50 = 0
             THEN /\ Len(logEntries') = Len(logEntries) + 1
                  /\ SubSeq(logEntries', 1, Len(logEntries)) = logEntries
                  /\ Latest(logEntries').N = N
                  /\ Latest(logEntries').tag = (IF pc = "edge" THEN "SENT" ELSE "")
             ELSE logEntries' = logEntries]_vars
    /\ [][LinkUpStep =>
             /\ Len(logEntries') = Len(logEntries) + 1
             /\ SubSeq(logEntries', 1, Len(logEntries)) = logEntries
             /\ Latest(logEntries').tag = "LINK-UP"]_vars
    /\ [](Returned =>
             /\ Latest(result.logEntries).tag = "END"
             /\ Ends(result.logEntries) = 1
             /\ LinkUps(result.logEntries) = (IF ReportsTransition(result) THEN 1 ELSE 0))

\* a returned log with an entry for step 0, an entry for step 50 and the END entry,
\* of a run of more than 50 steps
C15_Witness ==
    /\ Returned /\ result.totalSteps > 50
    /\ Len(result.logEntries) = 3
    /\ result.logEntries[2].N = result.data.N[51]

\* a returned log with a LINK-UP entry followed by the entry of the first edge
\* step, taken after some dual steps
C15_WitnessLinkUp ==
    /\ Returned /\ ReportsTransition(result) /\ step_start > 0
    /\ \E i \in 1..(Len(result.logEntries) - 1) :
          /\ result.logEntries[i].tag = "LINK-UP"
          /\ result.logEntries[i + 1].tag = "SENT"

\* the Kc of a run that consumes the override of its configuration
KcConsumed(cfg) ==
    IF cfg.Kc_override # undefined THEN cfg.Kc_override
    ELSE calcKc(cfg.geomParams.t, cfg.material)

\* C16 as stated: the Kc of a run, used by its fracture check, its adaptive step
\* and its growth rate and reported in the Result, is the Kc override of the
\* configuration when there is one, and calcKc(t, material) only when there is none.
C16_OverrideConsumed ==
    /\ InLoop => Kc = KcConsumed(config)
    /\ Returned => result.Kc = KcConsumed(config)

\* a run of the page with an override went through its loop and returned the Kc
\* of calcKc
C16_OverrideIgnored ==
    /\ Returned /\ caller = "runAnalysis"
    /\ config.Kc_override # undefined
    /\ result.totalSteps > 0
    /\ result.Kc = calcKc(config.geomParams.t, config.material)
    /\ result.Kc # config.Kc_override

\* the calls of fn recorded so far, for the variant id
CallsOf(id, fn) ==
    IF config.geometryId = id
    THEN {i \in 1..Len(calls) : calls[i].fn = fn}
    ELSE {}

C17_WitnessValid ==
    \E i \in CallsOf("TC01", "getBeta") :
       calls[i].value > 1000 /\ config.a0 = 9989999

\* the tension table of a TC05 configuration
TensionTable(cfgName) ==
    IF cfgName = "double_all" THEN "C8"
    ELSE IF cfgName = "double_one" THEN "C6"
    ELSE "C4"

\* the crack index of a TC05 configuration: c/(H-D), or 2c/(H-D) for double_all
CrackIndex(c, params) ==
    IF params.config = "double_all" THEN PerMille(2 * c, params.H - params.D)
    ELSE PerMille(c, params.H - params.D)

\* arguments TC05 accepts
ValidTC05(c, params) == c > 0 /\ params.D > 0 /\ params.H > 0 /\ params.D < params.H

\* the tension factor F0 of the configuration, by the conventions above
TensionFactor(c, params) ==
    interpolateTable(TC05_DATA[TensionTable(params.config)],
                     CrackIndex(c, params), PerMille(params.D, params.H))

\* C18: for valid arguments TC05 getBeta is the tension table of the
\* configuration (C4, C6, C8) at the crack index c/(H-D), 2c/(H-D) for
\* double_all, and at D/H; getK uses the same table and index, so with S3 = 0
\* getK = sigma * sqrt(pi*c) * getBeta; both return -1 for invalid arguments.
C18_AxisConventions ==
    /\ \A i \in CallsOf("TC05", "getBeta") :
          calls[i].value =
             IF ValidTC05(config.a0, config.geomParams)
             THEN TensionFactor(config.a0, config.geomParams)
             ELSE 0 - 1
    /\ \A i \in CallsOf("TC05", "getK") :
          /\ ~ValidTC05(config.a0, config.geomParams) => calls[i].value = 0 - 1
          /\ ValidTC05(config.a0, config.geomParams) /\ config.geomParams.S3 = 0 =>
                calls[i].value =
                   KOf(config.sigmaMax, config.a0,
                       TensionFactor(config.a0, config.geomParams))

\* getBeta and getK were called for double_all with S3 = 0, and the factor at
\* 2c/(H-D) differs from the factor of the same table at c/(H-D)
C18_Witness ==
    /\ config.geometryId = "TC05" /\ Len(calls) = 2
    /\ config.geomParams.config = "double_all" /\ config.geomParams.S3 = 0
    /\ ValidTC05(config.a0, config.geomParams)
    /\ calls[1].fn = "getBeta" /\ calls[2].fn = "getK"
    /\ calls[2].value = KOf(config.sigmaMax, config.a0, calls[1].value)
    /\ calls[1].value #
          interpolateTable(TC05_DATA.C8,
                           PerMille(config.a0, config.geomParams.H - config.geomParams.D),
                           PerMille(config.geomParams.D, config.geomParams.H))

\* getK with a bearing stress is above the tension term
C18_WitnessBearing ==
    /\ config.geometryId = "TC05" /\ Len(calls) = 2
    /\ config.geomParams.S3 > 0 /\ ValidTC05(config.a0, config.geomParams)
    /\ calls[1].fn = "getBeta" /\ calls[2].fn = "getK"
    /\ calls[2].value > KOf(config.sigmaMax, config.a0, calls[1].value)

C19_WitnessOthers ==
    /\ pc = "geometry" /\ config.geometryId \in {"TC01", "TC05"} /\ Len(calls) = 2
    /\ calls[1].fn = "getK" /\ calls[1].value > 0
    /\ calls[2] = calls[1]

\* TC23 arguments with a centred hole and equal cracks: each tip of length c sees
\* an opposing crack of length c as well
SymmetricTC23 ==
    /\ pc = "geometry" /\ config.geometryId = "TC23"
    /\ config.geomParams.e0 = 0
    /\ TipPair(config.a0, config.geomParams, "left").c2 = config.a0
    /\ TipPair(config.a0, config.geomParams, "right").c1 = config.a0

\* C20: for TC23 with e0 = 0 and c1 = c2 = c, getBeta of the left tip equals
\* getBeta of the right tip, for every W, D and c.
C20_SymmetricBeta ==
    SymmetricTC23 =>
       \A i, j \in 1..Len(calls) :
          /\ calls[i].fn = "getBeta" /\ calls[i].side = "left"
          /\ calls[j].fn = "getBeta" /\ calls[j].side = "right"
          => calls[i].value = calls[j].value

\* both tips were evaluated in the symmetric case and returned the same valid
\* value, with a finite-width correction above 1
C20_Witness ==
    /\ SymmetricTC23 /\ Len(calls) = 2
    /\ calls[1].fn = "getBeta" /\ calls[1].side = "left"
    /\ calls[2].fn = "getBeta" /\ calls[2].side = "right"
    /\ calls[1].value = calls[2].value /\ calls[1].value > 0
    /\ phi1(2 * config.a0 + config.geomParams.D, config.geomParams.W,
            2 * config.geomParams.W) > 1000

\* with an offset hole the two tips differ
C20_WitnessOffset ==
    /\ pc = "geometry" /\ config.geometryId = "TC23" /\ Len(calls) = 2
    /\ config.geomParams.e0 # 0
    /\ TipPair(config.a0, config.geomParams, "left").c2 = config.a0
    /\ TipPair(config.a0, config.geomParams, "right").c1 = config.a0
    /\ calls[1].fn = "getBeta" /\ calls[1].side = "left"
    /\ calls[2].fn = "getBeta" /\ calls[2].side = "right"
    /\ calls[1].value > 0 /\ calls[2].value > 0
    /\ calls[1].value # calls[2].value


-----------------------------------------------------------------------------
(* NasgroEquation: properties of the calls of RateSpec *)

\* the growthRate calls made so far
RateCalls == { calls[i] : i \in { j \in 1..Len(calls) : calls[j].fn = "growthRate" } }

\* dK = Kmax * (1 - R) of a call
RangeOf(call) == (call.Kmax * (10 - config.R)) \div 10

\* the call is at or below the threshold of its R and material
Arrested(call) == RangeOf(call) <= thresholdDK(config.R, config.material)

\* C21: growthRate returns dadN = 0 whenever dK = Kmax*(1-R) <= DKth, whatever
\* Kmax (negative, zero, at or past Kc), R, material and Kc are; dK and DKth are
\* returned as computed
C21_ArrestIsZero ==
    pc = "nasgro" =>
        \A call \in RateCalls :
            /\ call.value.dK = RangeOf(call)
            /\ call.value.DKth = thresholdDK(config.R, config.material)
            /\ Arrested(call) => call.value.dadN = 0

\* a call with 0 < dK <= DKth and 0 < Kmax < Kc returned 0
C21_Witness ==
    /\ pc = "nasgro"
    /\ \E call \in RateCalls :
          /\ 0 < call.Kmax /\ call.Kmax < config.Kc
          /\ 0 < RangeOf(call) /\ Arrested(call)
          /\ call.value.dadN = 0

\* calls with Kmax <= 0 and with Kmax >= Kc at or below the threshold returned 0
C21_WitnessOutside ==
    /\ pc = "nasgro"
    /\ \E call \in RateCalls :
          call.Kmax < 0 /\ Arrested(call) /\ call.value.dadN = 0
    /\ \E call \in RateCalls :
          call.Kmax >= config.Kc /\ Arrested(call) /\ call.value.dadN = 0

\* 1 - Kmax/Kc of the call is below the 0.001 floor of the instability term
AtFloor(call) == call.Kmax < config.Kc /\ 1000 * (config.Kc - call.Kmax) < config.Kc

\* C22: for fixed R, material and Kc, of two calls with 0 <= Kmax <= Kmax' < Kc
\* the second returns a dadN at least as large as the first
C22_MonotoneInKmax ==
    pc = "nasgro" =>
        \A x \in RateCalls, y \in RateCalls :
            (0 <= x.Kmax /\ x.Kmax <= y.Kmax /\ y.Kmax < config.Kc)
                => x.value.dadN <= y.value.dadN

\* two calls on either side of the arrest boundary: 0, then a positive rate
C22_Witness ==
    /\ pc = "nasgro"
    /\ \E x \in RateCalls, y \in RateCalls :
          /\ 0 < x.Kmax /\ x.Kmax < y.Kmax /\ y.Kmax < config.Kc
          /\ Arrested(x) /\ ~Arrested(y)
          /\ x.value.dadN = 0 /\ y.value.dadN > 0

\* two growing calls on either side of the point where the instability term
\* reaches its floor
C22_WitnessFloor ==
    /\ pc = "nasgro"
    /\ \E x \in RateCalls, y \in RateCalls :
          /\ 0 < x.Kmax /\ x.Kmax < y.Kmax /\ y.Kmax < config.Kc
          /\ ~AtFloor(x) /\ AtFloor(y)
          /\ 0 < x.value.dadN /\ x.value.dadN <= y.value.dadN

\* the newmanClosure calls made so far
ClosureCalls == { calls[i] : i \in { j \in 1..Len(calls) : calls[j].fn = "newmanClosure" } }

\* A0 + A1*R + A2*R^2 + A3*R^3 with A3 = 2*A0 + A1 - 1 and A2 = 1 - A0 - A1 - A3,
\* per mille, for R = r/1000
ClosurePolynomial(A0, A1, r) ==
    A0 + (A1 * r) \div 1000 + ((1000 - A0 - A1 - (2 * A0 + A1 - 1000)) * r * r) \div 1000000
       + ((((2 * A0 + A1 - 1000) * r * r) \div 1000000) * r) \div 1000

\* A0 + A1*R, per mille
ClosureLine(A0, A1, r) == A0 + (A1 * r) \div 1000

C23_WitnessNonNegative ==
    /\ pc = "nasgro"
    /\ \E call \in ClosureCalls :
          \/ config.R = 0 /\ call.value > 0
          \/ config.R > 0 /\ call.value > 100 * config.R
          \/ config.R > 0 /\ call.value = 100 * config.R

-----------------------------------------------------------------------------
(* engine.js: properties of the runs of Spec, continued *)

\* the scratch fields a TC23 call of a dual step at (x1, x2) may see: the
\* physical lengths, or the Irwin-effective lengths of one of the two iterations
CurrentScratch(call, x1, x2, k) ==
    \/ call.sc1 = x1 /\ call.sc2 = x2
    \/ call.sc1 = x1 + k.second.ry1 /\ call.sc2 = x2 + k.second.ry2
    \/ call.sc1 = x1 + k.third.ry1 /\ call.sc2 = x2 + k.third.ry2

\* C24: every TC23 call the engine makes in the dual-crack phase (those of the
\* LINK-UP and END entries included) sees params._c1 and params._c2 equal to
\* the crack lengths of the step that makes it, physical or Irwin-effective
C24_ScratchIsCurrent ==
    [][pc = "dual" =>
          \A i \in 1..Len(calls') :
              CurrentScratch(calls'[i], c1, c2, DualK(config, c1, c2))]_vars

\* a link-up in the first iteration made its LINK-UP calls with the scratch
\* fields unset
C24_UnsetAtLinkUp ==
    /\ pc = "edge"
    /\ step = 0
    /\ Len(calls) > 0
    /\ \A i \in 1..Len(calls) : calls[i].sc1 = undefined /\ calls[i].sc2 = undefined

\* the END calls of a run that grew saw the lengths of the step before: the
\* entry reports a K of the left tip that is not the K at (c1, c2)
C24_StaleAtEnd ==
    /\ pc = "done"
    /\ result.isDual
    /\ step > 0
    /\ Len(calls) > 0
    /\ \A i \in 1..Len(calls) :
          /\ calls[i].sc1 # undefined /\ calls[i].sc2 # undefined
          /\ calls[i].sc1 < c1 \/ calls[i].sc2 < c2
    /\ result.logEntries[Len(result.logEntries)].tag = "END"
    /\ result.logEntries[Len(result.logEntries)].K1
         # toFixed3(Max(TC23_getK(c1, config.sigmaMax,
                                  WithScratch(config.geomParams, c1, c2), "left"), 0))

\* beta of a tip at the physical lengths of the dual step
BetaNow(side) ==
    TC23_getBeta(IF side = "left" THEN c1 ELSE c2,
                 WithScratch(config.geomParams, c1, c2), side)

\* C25: a step ends with 'Geometry Limit (left)' or 'Geometry Limit (SENT)', or
\* links up without a right-tip fracture, only when a crack length is at its
\* limit or the beta of the tip is out of range (-1)
C25_LimitOnlyFromGeometry ==
    [][/\ (pc = "dual" /\ failureMode = Running /\ failureMode' = GeometryLimitLeft)
            => \/ c1 >= TC23_getMaxCrack(config.geomParams, "left")
               \/ BetaNow("left") < 0
       /\ (LinkUpStep /\ DualK(config, c1, c2).K2 < Kc)
            => \/ c2 >= TC23_getMaxCrack(config.geomParams, "right")
               \/ BetaNow("right") < 0
       /\ (pc = "edge" /\ failureMode = Running /\ failureMode' = GeometryLimitSent)
            => getBetaEdge(aEdge, config.geomParams) < 0]_vars

\* a run ended with 'Geometry Limit (left)' at the start, its left crack short of
\* the limit and its beta valid: K1 is negative because the bending term
\* outweighs the tension term
C25_BendingEndsLeft ==
    /\ pc = "dual"
    /\ failureMode = GeometryLimitLeft
    /\ config.geomParams.S2 > 0
    /\ c1 < TC23_getMaxCrack(config.geomParams, "left")
    /\ BetaNow("left") > 0
    /\ TC23_getK(c1, config.sigmaMax, WithScratch(config.geomParams, c1, c2), "left") > 0

\* a run linked up with both cracks short of their limits, both betas valid and
\* K2 below Kc
C25_BendingLinksUp ==
    /\ pc = "edge"
    /\ step = step_start
    /\ failureMode = Running
    /\ config.geomParams.S2 < 0
    /\ c2 < TC23_getMaxCrack(config.geomParams, "right")
    /\ BetaNow("right") > 0
    /\ DualK(config, c1, c2).K2 < 0

\* an edge phase ended with 'Geometry Limit (SENT)' with a valid SENT beta
C25_BendingEndsEdge ==
    /\ pc = "edge"
    /\ failureMode = GeometryLimitSent
    /\ aEdge < getMaxCrackEdge(config.geomParams)
    /\ getBetaEdge(aEdge, config.geomParams) > 0
    /\ config.geomParams.S2 > config.sigmaMax

\* the corrected K of a tip for the plastic zones of a pass, as the geometry returns it
CorrectedK(side, pass) ==
    calcK(config, WithScratch(config.geomParams, c1 + pass.ry1, c2 + pass.ry2),
          IF side = "left" THEN c1 + pass.ry1 ELSE c2 + pass.ry2, side)

\* the K of a pass is the corrected value if that is valid, the K before otherwise
KeptOrValid(before, after, corrected) ==
    IF corrected > 0 THEN after = corrected ELSE after = before

\* the three K of a tip stay valid once the first is
StaysValid(K0, K1, K2) == K0 >= 0 => (K1 >= 0 /\ K2 >= 0)

\* C26 (dual): a tip whose uncorrected K is valid has a valid K after both Irwin
\* iterations, an invalid corrected value being dropped for the K before it; with
\* the crack short of its limit the step then neither ends with
\* 'Geometry Limit (left)' nor links up below Kc
IrwinKeepsValidDual ==
    pc = "dual" /\ failureMode = Running /\ step < maxStepsOf(config) =>
        \E k \in {DualK(config, c1, c2)} :
            /\ StaysValid(k.first.K1, k.second.K1, k.third.K1)
            /\ StaysValid(k.first.K2, k.second.K2, k.third.K2)
            /\ KeptOrValid(k.first.K1, k.second.K1, CorrectedK("left", k.second))
            /\ KeptOrValid(k.second.K1, k.third.K1, CorrectedK("left", k.third))
            /\ KeptOrValid(k.first.K2, k.second.K2, CorrectedK("right", k.second))
            /\ KeptOrValid(k.second.K2, k.third.K2, CorrectedK("right", k.third))
            /\ (k.first.K1 >= 0 /\ c1 < TC23_getMaxCrack(config.geomParams, "left"))
                  => failureMode' # GeometryLimitLeft
            /\ (/\ k.first.K1 >= 0 /\ k.first.K2 >= 0
                /\ c1 < TC23_getMaxCrack(config.geomParams, "left")
                /\ c2 < TC23_getMaxCrack(config.geomParams, "right")
                /\ pc' = "edge")
                  => k.K2 >= Kc

\* C26 (edge): an edge step whose uncorrected K is valid uses a valid K and does
\* not end with 'Geometry Limit (SENT)'
IrwinKeepsValidEdge ==
    (/\ pc = "edge" /\ failureMode = Running /\ step < maxStepsOf(config)
     /\ aEdge < getMaxCrackEdge(config.geomParams)
     /\ calcKEdge(config, aEdge) >= 0)
        => /\ EdgeK(config, aEdge) >= 0
           /\ failureMode' # GeometryLimitSent

RightLigament ==
    config.geomParams.W \div 2 - config.geomParams.e0 - config.geomParams.D \div 2

\* the edge crack that spans the right ligament, the hole and the left crack x
EdgeLengthFor(x) == x + config.geomParams.D + RightLigament

\* C27: after link-up the run stays in the edge loop until it returns; N and
\* step go on from their values at link-up; transitionCycle is N at link-up, is
\* returned and is at most totalCycles; a_edge = c1 + D + (W/2 - e0 - D/2) at
\* every edge step, and every c2 sample recorded after link-up is W/2 - e0 - D/2
C27_EdgePhase ==
    [][/\ pc = "edge" => pc' \in {"edge", "done"}
       /\ LinkUpStep =>
             /\ N' = N /\ step' = step /\ step_start' = step
             /\ transitionCycle' = N
             /\ aEdge' = EdgeLengthFor(c1)
             /\ data' = data
       /\ pc = "edge" =>
             /\ transitionCycle' = transitionCycle
             /\ N' >= N /\ step' >= step
             /\ aEdge' = EdgeLengthFor(c1')
             /\ step' = step + 1 =>
                   /\ Len(data'.c2) = Len(data.c2) + 1
                   /\ Latest(data'.c2) = RightLigament
       /\ (pc = "edge" /\ pc' = "done") =>
             /\ result'.hasTransition
             /\ result'.transitionCycle = transitionCycle
             /\ result'.transitionCycle <= result'.totalCycles
             /\ \A i \in (step_start + 2)..Len(result'.data.c2) :
                   result'.data.c2[i] = RightLigament]_vars

\* a run that grew in the dual loop, linked up and grew in the edge loop has returned
C27_Witness ==
    /\ pc = "done"
    /\ result.isDual
    /\ step_start > 0
    /\ step > step_start
    /\ 0 < result.transitionCycle
    /\ result.transitionCycle < result.totalCycles
    /\ Latest(result.data.c2) = RightLigament
    /\ result.data.c2[step_start + 1] < RightLigament

\* the config object with its two scratch fields put back to the values of cfg
ScratchAs(cfg) ==
    [config' EXCEPT !.geomParams._c1 = cfg.geomParams._c1,
                    !.geomParams._c2 = cfg.geomParams._c2]

\* C28: CrackGrowthEngine.run leaves config, config.material and
\* config.geomParams as they are, but for geomParams._c1 and geomParams._c2: the
\* dispatch, the single loop and the edge phase change nothing, the dual loop the
\* two scratch fields only
C28_ConfigReadOnly ==
    [][/\ (pc = "input" /\ caller' = "run") => config' = config
       /\ pc \in {"single", "edge"} => config' = config
       /\ pc = "dual" => ScratchAs(config) = config]_vars

\* a dual run returned with the scratch fields written and the start lengths of
\* the form still in place after both cracks grew
C28_Witness ==
    /\ pc = "done"
    /\ result.isDual
    /\ step > 0
    /\ config.geomParams._c1 # undefined
    /\ config.geomParams._c2 # undefined
    /\ config.geomParams.a0 = config.a0 /\ config.a0 < c1
    /\ config.geomParams.a0_2 = config.a0_2 /\ config.a0_2 < c2

\* a run that grew has returned with no scratch field written: the single loop,
\* or the edge phase after a link-up in the first iteration
C28_WitnessUntouched ==
    /\ pc = "done"
    /\ step > 0
    /\ config.geomParams._c1 = undefined
    /\ config.geomParams._c2 = undefined

\* a series that never goes down
NonDecreasing(series) == \A i \in 1..(Len(series) - 1) : series[i] <= series[i + 1]

\* the cycle series and the crack-length series of a result
LengthSeries(res) ==
    IF res.isDual THEN {"N", "c1", "c2", "a", "twoA"} ELSE {"N", "a", "twoA"}

\* every step that moves the counter moves it by one, adds cycles and shortens no crack
GrowsOnly ==
    /\ (InLoop /\ step' # step) => (step' = step + 1 /\ N' > N)
    /\ InLoop => (N' >= N /\ a' >= a /\ c1' >= c1 /\ c2' >= c2 /\ aEdge' >= aEdge)

\* C29: an integration step adds exactly 1 to the step counter and a positive
\* number of cycles to N, no crack length (a, c1, c2, a_edge) ever goes down,
\* and the N series and every crack-length series of the returned data are
\* non-decreasing, across a link-up too
C29_MonotoneGrowth ==
    [][/\ GrowsOnly
       /\ (InLoop /\ pc' = "done") =>
             \A f \in LengthSeries(result') : NonDecreasing(result'.data[f])]_vars

\* the right crack of the form is no longer than the right ligament
RightCrackFits == config.a0_2 = undefined \/ config.a0_2 <= RightLigament

\* C29 for runs whose right crack fits its ligament: the same statement holds
C29_MonotoneWhenFits ==
    [][RightCrackFits =>
          /\ GrowsOnly
          /\ (InLoop /\ pc' = "done") =>
                \A f \in LengthSeries(result') : NonDecreasing(result'.data[f])]_vars

\* a returned run whose right crack was longer than the ligament: its c2 series
\* starts at a0_2 and falls to the ligament in the first edge step
C29_SeriesFalls ==
    /\ pc = "done"
    /\ result.isDual
    /\ ~RightCrackFits
    /\ Len(result.data.c2) >= 2
    /\ result.data.c2[1] = config.a0_2
    /\ result.data.c2[2] = RightLigament
    /\ result.data.c2[2] < result.data.c2[1]

\* a returned run that grew in both phases, each series non-decreasing across the link-up
C29_WitnessAcross ==
    /\ pc = "done"
    /\ result.isDual
    /\ RightCrackFits
    /\ step_start > 0 /\ step > step_start
    /\ \A f \in LengthSeries(result) : NonDecreasing(result.data[f])
    /\ result.data.c2[step_start + 1] < result.data.c2[step_start + 2]

\* the dual step ends the run on the left tip with the given mode, without a transition
EndsLeft(mode) ==
    /\ pc' = "dual"
    /\ failureMode' = mode
    /\ failureSide' = "left"

\* both cracks are short of their limits: the step comes to compute K1 and K2
BothShort ==
    /\ c1 < TC23_getMaxCrack(config.geomParams, "left")
    /\ c2 < TC23_getMaxCrack(config.geomParams, "right")

\* C30: in a dual step in which both tips meet the same terminal condition the
\* left tip decides: both cracks at their limits, or both K invalid, end the run
\* with 'Geometry Limit (left)', both K at or above Kc with the left-tip
\* fracture; failureSide is 'left', the edge phase is not entered, and the run
\* returns that mode
C30_LeftTipFirst ==
    [][/\ (pc = "dual" /\ failureMode = Running /\ step < maxStepsOf(config)) =>
             \E k \in {DualK(config, c1, c2)} :
                /\ (/\ c1 >= TC23_getMaxCrack(config.geomParams, "left")
                    /\ c2 >= TC23_getMaxCrack(config.geomParams, "right"))
                      => EndsLeft(GeometryLimitLeft)
                /\ (BothShort /\ k.K1 < 0 /\ k.K2 < 0) => EndsLeft(GeometryLimitLeft)
                /\ (BothShort /\ k.K1 >= Kc /\ k.K2 >= Kc) => EndsLeft(FractureLeft)
       /\ (pc = "dual" /\ failureSide = "left") =>
             /\ pc' = "done"
             /\ result'.failureMode = failureMode
             /\ result'.failureSide = "left"
             /\ "hasTransition" \notin DOMAIN result']_vars

\* a run returned with the left-tip fracture, K2 at or above Kc as well
C30_Witness ==
    /\ pc = "done"
    /\ result.isDual
    /\ result.failureMode = FractureLeft
    /\ result.failureSide = "left"
    /\ DualK(config, c1, c2).K1 >= Kc
    /\ DualK(config, c1, c2).K2 >= Kc

\* a run returned with 'Geometry Limit (left)', both cracks at their limits
C30_WitnessLimits ==
    /\ pc = "done"
    /\ result.isDual
    /\ result.failureMode = GeometryLimitLeft
    /\ c1 >= TC23_getMaxCrack(config.geomParams, "left")
    /\ c2 >= TC23_getMaxCrack(config.geomParams, "right")

\* a run returned with 'Geometry Limit (left)', both K invalid with both cracks
\* short of their limits
C30_WitnessInvalid ==
    /\ pc = "done"
    /\ result.isDual
    /\ result.failureMode = GeometryLimitLeft
    /\ BothShort
    /\ DualK(config, c1, c2).K1 < 0
    /\ DualK(config, c1, c2).K2 < 0

====
